---- MODULE Spec2Model ----
(***************************************************************************)
(* A model of plyvelmp: the shared-memory slot transport and its broker    *)
(* (src/mdb.py), the engine adapter (src/db.py), the ordered integer keys  *)
(* (src/lexoint.py) and the ORM (src/orm.py).                              *)
(*                                                                         *)
(* The specifications share the module's variables:                        *)
(*   SpecCapture  the startup slot-capture loop of MDB.__init__ raced by   *)
(*                several peers, with close() and the broker's reclaim;    *)
(*   SpecBroker, SpecIter, SpecBatch                                       *)
(*                attached peers issuing client calls and the maintainer   *)
(*                loop serving them against the engine;                    *)
(*   SpecFrame    the same with values whose text is as long as a block;   *)
(*   SpecSession  single-shot calls, iterator steps and batch steps;       *)
(*   SpecOrm      peers running ORM calls, every engine access of a call   *)
(*                being one request served by the broker;                  *)
(*   SpecOrmSeq   one peer running ORM calls one after the other;          *)
(*   SpecCache    one peer repeating selects between writes to two      *)
(*                tables;                                                  *)
(*   SpecStores   one process with ORM objects on two paths;               *)
(*   SpecClose    calls on closed and on disconnected MDB objects;         *)
(*   SpecThreads  two threads of one peer calling on its one slot;         *)
(*   SpecFull     more peers than slots in the capture loop;               *)
(*   SpecReclaim, SpecReclaimFair                                          *)
(*                peers closing with sessions open and attaching again;    *)
(*   SpecRegion   the region unlinked by the maintainer and created anew;  *)
(*   SpecOrphan, SpecOrphanFair                                           *)
(*                peers in the capture loop while the maintainer ends;     *)
(*   SpecLexo     LexoInt keys built, printed, added to and subtracted     *)
(*                from (src/lexoint.py);                                   *)
(*   SpecSysLock  processes acquiring and releasing one SysLock name       *)
(*                (src/syslock.py).                                        *)
(***************************************************************************)
EXTENDS Integers, Sequences, FiniteSets, TLC

\* ------------------------------------------------------------------ bounds
\* Number of peer processes of the capture race.
NPeers == 2
\* Slots of the shared region (24 in the source, scaled down).
MAX_PROCESSES == 2
\* Operations a peer issues inside one write_batch scope, at most.
MaxBatchOps == 2
\* Requests the peers send in one run of SpecBroker, SpecIter and SpecBatch.
MaxCalls == 3
MaxIterCalls == 5
MaxBatchCalls == 5
\* ORM calls the peers start in one run of SpecOrm, and the ids they name.
MaxOrmCalls == 3
MaxId == 1
\* ORM calls in one run of SpecOrmSeq, the ids they name, and page sizes.
MaxSeqCalls == 4
MaxSeqId == 2
MaxPage == 2
\* Requests the peers send in one run of SpecFrame, and the number of times
\* the list RecVal holds itself.
MaxFrameCalls == 3
\* Calls the peers make in one run of SpecClose.
MaxCloseCalls == 3
\* ORM calls in one run of SpecCache.
MaxCacheCalls == 4
\* Requests the peers send in one run of SpecSession.
MaxSessionCalls == 4
\* ORM calls in one run of SpecStores.
MaxStoreCalls == 3
\* Requests the peers send in one run of SpecOrphan.
MaxOrphanCalls == 2
\* Widths of the LexoInt keys of SpecLexo, and the largest operand.
MaxWidth == 2
MaxLexo == 100
\* Calls of acquire() and release() in one run of SpecSysLock.
MaxSysCalls == 5
\* Regions the path has in one run of SpecRegion, the first included.
MaxRegions == 3
\* Requests the peers send in one run of SpecReclaim.
MaxReclaimCalls == 3
\* Calls the threads make in one run of SpecThreads.
MaxThreadCalls == 3
RecItems == 2000

\* ------------------------------------------------------ program constants
STATE_IDLE == 0
STATE_REQUEST == 1
STATE_RESPONCE == 2
LOCK_FREE == 0
LOCK_LOCK == 1
LOCK_CLEAN == 2
LEXOINT_SIZE == 16
\* BLOCK_SIZE = 16 * 1024: the bytes of the data block of a slot.
BLOCK_SIZE == 16384

Procs == 1..NPeers
Slots == 0..(MAX_PROCESSES - 1)

\* A uid is os.urandom(16) written twice (the right half is the checksum of
\* the left); peer p's random half is p, sixteen zero bytes are 0.
ZeroUid == <<0, 0>>
SelfUid(p) == <<p, p>>

VARIABLES
    lock,       \* lock[i]: the lock byte of slot i
    uid,        \* uid[i]: <<left half, right half>> of the uid field of slot i
    cpc,        \* cpc[p]: position of peer p in MDB.__init__ / its lifetime
    cidx,       \* cidx[p]: idx of the capture loop of peer p
    cuid,       \* cuid[p]: the uid peer p has read (local variable uid)
    index,      \* index[p]: self.index of peer p, -1 when it has no slot
    bpc,        \* position of the maintainer process
    bi,         \* the maintainer's loop variable i
    tasks,      \* the maintainer's snapshot of the state bytes
    state,      \* state[i]: the state byte of slot i
    frame,      \* frame[i]: the decoded content of the data block of slot i
    iterators,  \* the maintainer's list iterators
    batches,    \* the maintainer's list batches
    db,         \* the engine's content: key -> stored value
    reply,      \* the reply the maintainer is about to write for slot i
    ppc,        \* ppc[p]: position of peer p in its client call
    cur,        \* cur[p]: the call peer p is in: method and idle flag
    git,        \* git[p]: peer p has a started client iterator (in its try)
    wbs,        \* wbs[p]: whether peer p is inside a write_batch scope, and
                \* the operations the maintainer has acknowledged in it
    calls,      \* requests the peers may still send (bounds the runs)
    orm,        \* orm[p]: the ORM call peer p is in and its local variables
    cache,      \* cache[p]: MDBOrm.select_caches[table] of the process of peer p
    ret,        \* ret[p]: what the last select/getrow of peer p returned, or
                \* the exception a call of peer p raised
    done,       \* completed inserts and other completed writes on the table
    ocalls,     \* ORM calls the peers may still start (bounds the runs)
    region,     \* the shared region of the path: whether it is linked, the
                \* kind of process that created it and that unlinked it, and
                \* how many regions the path has had
    exiting,    \* maintainer processes that have unlinked their region and
                \* have not exited yet
    lex,        \* the operands and results of the LexoInt operations
    sys,        \* the sentinel region of a SysLock name and, per process,
                \* its position, its self.shm and what its last call gave
    odb         \* the content of the engine of a second path, which a
                \* process reaches through a second MDBOrm object

capVars == <<cpc, cidx, cuid, index>>
ormVars == <<orm, cache, ret, done, ocalls>>
cliVars == <<ppc, cur, git, wbs, calls, ormVars>>
shmVars == <<lock, uid, state, frame>>
brkVars == <<bpc, bi, tasks, iterators, batches, db, reply>>
regVars == <<region, exiting>>
libVars == <<lex, sys, odb>>
vars == <<lock, uid, cpc, cidx, cuid, index, bpc, bi, tasks, state, frame,
          iterators, batches, db, reply, ppc, cur, git, wbs, calls,
          orm, cache, ret, done, ocalls, region, exiting, lex, sys, odb>>

\* The peer that created the region (self.shm_creator): it starts the
\* maintainer once it holds a slot.
Creator == 1

\* ------------------------------------------------- src/db.py: the engine
\* A key is <<prefix, suffix>>: the table prefix it starts with (a string)
\* and the rest of it, a sequence of character codes (digits for the ORM's
\* ids); keys under one prefix are ordered by their suffix, as bytes are.
\* A stored value is what repr()/literal_eval() carry, which is the value
\* itself for the literals a frame can hold.
NoneV == "<None>"
\* A key object that is not a str (db.py raises AssertionError on it).
NonStrKey == <<"<int>", <<>>>>
IsStr(k) == k # NonStrKey

Min2(a, b) == IF a <= b THEN a ELSE b

\* Byte-wise order of two suffixes.
LexLess(a, b) ==
    \E n \in 0..Min2(Len(a), Len(b)) :
        /\ \A j \in 1..n : a[j] = b[j]
        /\ \/ n = Len(a) /\ n < Len(b)
           \/ n < Len(a) /\ n < Len(b) /\ a[n + 1] < b[n + 1]

EmptyDb == [k \in {} |-> NoneV]

\* _DB.get
DbGet(d, k) == IF k \in DOMAIN d THEN d[k] ELSE NoneV

\* _DB.put
DbPut(d, k, v) == [x \in (DOMAIN d) \cup {k} |-> IF x = k THEN v ELSE d[x]]

\* _DB.delete
DbDelete(d, k) == [x \in (DOMAIN d) \ {k} |-> d[x]]

\* The suffixes under a prefix, ascending.
RECURSIVE SortAsc(_)
SortAsc(S) ==
    IF S = {} THEN <<>>
    ELSE LET m == CHOOSE x \in S : \A y \in S \ {x} : LexLess(x, y)
         IN <<m>> \o SortAsc(S \ {m})

Reverse(q) == [j \in 1..Len(q) |-> q[Len(q) + 1 - j]]

NoSeek == <<-1>>

\* _DB.iterator: the (suffix, value) pairs the generator yields. The engine
\* iterator reads the content as of its creation; seek positions it so that
\* the first next() is the first key >= prefix+seek (reverse=False) or the
\* last key < prefix+seek (reverse=True); keys outside the prefix are skipped.
DbIterator(d, prefix, reverse, seek) ==
    LET sufs == {k[2] : k \in {x \in DOMAIN d : x[1] = prefix}}
        kept == IF seek = NoSeek THEN sufs
                ELSE IF reverse THEN {x \in sufs : LexLess(x, seek)}
                ELSE {x \in sufs : ~LexLess(x, seek)}
        asc == SortAsc(kept)
        ord == IF reverse THEN Reverse(asc) ELSE asc
    IN [j \in 1..Len(ord) |-> <<ord[j], d[<<prefix, ord[j]>>]>>]

\* One operation of a write batch applied to the content.
ApplyOp(d, op) ==
    IF op[1] = "put" THEN DbPut(d, op[2], op[3]) ELSE DbDelete(d, op[2])

\* _DB.write_batch on a normal exit of the scope: the engine writes the
\* batch's operations in order, as one atomic write.
RECURSIVE ApplyBatch(_, _)
ApplyBatch(d, ops) ==
    IF ops = <<>> THEN d ELSE ApplyBatch(ApplyOp(d, Head(ops)), Tail(ops))

\* --------------------------------------- MDB.__maintainer: the broker
\* iterators[i]: None ("none"), a generator of _DB.iterator not yet started
\* ("new": its body, the argument checks and the engine iterator included,
\* runs at the first next), a started one with the pairs it still yields
\* ("run"), or one that ended with an exception ("dead").
NoIter == [st |-> "none", prefix |-> "", reverse |-> FALSE, seek |-> NoSeek, rest |-> <<>>]
NewIter(prefix, reverse, seek) ==
    [st |-> "new", prefix |-> prefix, reverse |-> reverse, seek |-> seek, rest |-> <<>>]
RunIter(it, rest) == [it EXCEPT !.st = "run", !.rest = rest]
DeadIter(it) == [it EXCEPT !.st = "dead", !.rest = <<>>]

\* batches[i]: None ("none"), the _batch generator suspended at its yield
\* inside the engine's write_batch scope with the operations buffered so far
\* ("open"), or a generator that an exception ended, its batch dropped ("dead").
NoBatch == [st |-> "none", ops |-> <<>>]
OpenBatch(ops) == [st |-> "open", ops |-> ops]
DeadBatch == [st |-> "dead", ops |-> <<>>]

\* The data block of a slot nobody has written yet (zero bytes).
EmptyFrame == [kind |-> "empty"]
\* Reply frames.
Result(x) == [kind |-> "result", result |-> x, error |-> ""]
Error(e) == [kind |-> "error", result |-> <<"None">>, error |-> e]
RTrue == <<"True">>
RStop == <<"StopIteration">>

Outcome(d, it, bt, r) == [db |-> d, it |-> it, bt |-> bt, reply |-> r]

\* ------------------------------- __put_data / __get_data: a frame's text
\* A frame is the text repr(data) followed by a NUL byte. The values whose
\* text matters against BLOCK_SIZE:
\* a list that holds itself RecItems times (repr writes each as [...]),
RecVal == "<list holding itself>"
\* what literal_eval makes of that text, a list of lists holding Ellipsis
\* (repr writes each as [Ellipsis], which literal_eval rejects),
EllVal == "<list of [Ellipsis]>"
\* a str that makes the put request on a two-character key BLOCK_SIZE - 1
\* bytes of text, and one that is a character longer,
FitVal == "<str, request of B-1 bytes>"
OverVal == "<str, request of B bytes>"
\* and a stored str of BLOCK_SIZE characters (DB.put has no limit).
LargeVal == "<str of B characters>"

\* literal_eval(repr(v)): the value the maintainer reads from the frame.
Decode(v) == IF v = RecVal THEN EllVal ELSE v

\* Whether literal_eval accepts the text repr(v) of a stored value.
Parses(v) == v # EllVal

\* len(repr(k)) of a key: its one-character prefix, its suffix and the
\* quotes; one digit for a key that is not a str.
KeyLen(k) == IF IsStr(k) THEN 3 + Len(k[2]) ELSE 1

\* len(repr(v)) of a value.
ReprLen(v) ==
    CASE v = RecVal -> 7 * RecItems
      [] v = EllVal -> 12 * RecItems
      [] v = FitVal -> BLOCK_SIZE - 1 - 35 - 4
      [] v = OverVal -> BLOCK_SIZE - 35 - 4
      [] v = LargeVal -> BLOCK_SIZE + 2
      [] OTHER -> 4

\* RuntimeError(f"DB {self.path}: Invalid Value {val} for key {key}")
InvalidValue(v) == "Invalid Value " \o v

\* len(str(e)) of an exception text: empty for BufferError, the bytes of
\* the stored value and 39 characters around them for an invalid value, and
\* at most 152 for the other texts (24 + 125 + 3 for a malformed request).
ErrLen(e) ==
    CASE e = "" -> 0
      [] e = InvalidValue(EllVal) -> 39 + ReprLen(EllVal)
      [] OTHER -> 152

\* len(repr(x)) of the result of a reply: a value, a (key, value) pair, or
\* True / 'StopIteration'.
ResLen(x) ==
    CASE x[1] = "val" -> ReprLen(x[2])
      [] x[1] = "kv" -> 6 + Len(x[2]) + ReprLen(x[3])
      [] OTHER -> 15

\* len(repr(data)) of a frame: a request {'method': ..., 'key': ..., 'val':
\* ...} (the requests without a val are below 70 bytes), a reply
\* {'result': ...} or {'error': '...'}, or a block written otherwise.
FrameLen(f) ==
    CASE f.kind = "request" /\ f.method = "put" -> 35 + KeyLen(f.key) + ReprLen(f.val)
      [] f.kind = "request" /\ f.method = "batch_put" -> 41 + KeyLen(f.key) + ReprLen(f.val)
      [] f.kind = "result" -> 12 + ResLen(f.result)
      [] f.kind = "error" -> 13 + ErrLen(f.error)
      [] OTHER -> 70

\* A faulty length check that forgets the NUL byte.
FitsWithoutNul(f) == FrameLen(f) <= BLOCK_SIZE

\* raw = repr(data).encode() + b'\0'; if len(raw) > MDB.BLOCK_SIZE: raise
\* BufferError
Fits(f) == FrameLen(f) + 1 <= BLOCK_SIZE

\* _put_responce(i, {'result': ...}) inside the try of the dispatch: the
\* BufferError of a result that does not fit is caught by "except Exception
\* as e", whose reply is {'error': str(e)} with the empty text.
TryReply(r) == IF r.kind = "result" /\ ~Fits(r) THEN Error("") ELSE r

\* A faulty 'next' that keeps the exhausted iterator in iterators[i].
ExecNextKeepsIterator(d, it, bt) ==
    IF it.st = "none"
    THEN Outcome(d, it, bt, Error("'NoneType' object is not an iterator"))
    ELSE Outcome(d, DeadIter(it), bt, Result(RStop))

\* elif method == 'next' (lines 399-408).
ExecNext(d, it, bt) ==
    CASE it.st = "none" -> Outcome(d, it, bt, Error("'NoneType' object is not an iterator"))
      [] it.st = "dead" -> Outcome(d, NoIter, bt, Result(RStop))
      [] it.st = "new" /\ it.prefix = NonStrKey[1] ->
            Outcome(d, DeadIter(it), bt, Error("Iterator prefix must be a string"))
      [] OTHER ->
            LET rest == IF it.st = "new"
                        THEN DbIterator(d, it.prefix, it.reverse, it.seek)
                        ELSE it.rest
            IN IF rest = <<>>
               THEN Outcome(d, NoIter, bt, Result(RStop))
               ELSE IF ~Parses(Head(rest)[2])
               THEN Outcome(d, DeadIter(it), bt, Error(InvalidValue(Head(rest)[2])))
               ELSE Outcome(d, RunIter(it, Tail(rest)), bt,
                            Result(<<"kv", Head(rest)[1], Head(rest)[2]>>))

\* batches[i].send((method, key, val)) into _batch (lines 312-337, 426-438).
ExecBatchOp(d, it, bt, op) ==
    CASE bt.st = "none" -> Outcome(d, it, bt, Error("'NoneType' object has no attribute 'send'"))
      [] bt.st = "dead" -> Outcome(d, it, bt, Error(""))
      [] OTHER ->
            IF IsStr(op[2])
            THEN Outcome(d, it, OpenBatch(Append(bt.ops, op)), Result(RTrue))
            ELSE Outcome(d, it, DeadBatch, Error("key must be a string"))

\* A faulty 'batch_exit' that writes only the first buffered operation.
ExecBatchExitPartial(d, it, bt) ==
    IF bt.st = "open" /\ bt.ops # <<>>
    THEN Outcome(ApplyOp(d, Head(bt.ops)), it, NoBatch, Result(RTrue))
    ELSE Outcome(d, it, NoBatch, Result(RTrue))

\* A faulty 'batch_error' that lets the engine write the buffered operations.
ExecBatchErrorWrites(d, it, bt) ==
    Outcome(ApplyBatch(d, bt.ops), it, NoBatch, Result(RTrue))

\* elif method == 'batch_exit': batches[i].close(); batches[i] = None
ExecBatchExit(d, it, bt) ==
    CASE bt.st = "none" -> Outcome(d, it, bt, Error("'NoneType' object has no attribute 'close'"))
      [] bt.st = "open" -> Outcome(ApplyBatch(d, bt.ops), it, NoBatch, Result(RTrue))
      [] OTHER -> Outcome(d, it, NoBatch, Result(RTrue))

\* elif method == 'batch_error': batches[i].throw(EOFError) ... close()
ExecBatchError(d, it, bt) ==
    IF bt.st = "none"
    THEN Outcome(d, it, bt, Error("'NoneType' object has no attribute 'close'"))
    ELSE Outcome(d, it, NoBatch, Result(RTrue))

\* The dispatch on request.get('method') of lines 359-460 for one request
\* frame: the engine content, the slot's iterator and batch after it, and the
\* reply frame. A block that holds a literal other than a dict ("notdict"),
\* a text literal_eval rejects ("garbage") or no NUL byte ("nonul") raises
\* before the dispatch.
Exec(req, d, it, bt) ==
    IF req.kind = "notdict" THEN Outcome(d, it, bt, Error("Malformed request data"))
    ELSE IF req.kind = "garbage" THEN Outcome(d, it, bt, Error("invalid syntax"))
    ELSE IF req.kind = "nonul" THEN Outcome(d, it, bt, Error(""))
    ELSE IF req.kind # "request"
    THEN Outcome(d, it, bt, Error("Unsupported method: None..."))
    ELSE CASE req.method = "put" ->
                IF IsStr(req.key) THEN Outcome(DbPut(d, req.key, req.val), it, bt, Result(RTrue))
                ELSE Outcome(d, it, bt, Error("key must be a string"))
           [] req.method = "delete" ->
                IF IsStr(req.key) THEN Outcome(DbDelete(d, req.key), it, bt, Result(RTrue))
                ELSE Outcome(d, it, bt, Error("key must be a string"))
           [] req.method = "get" ->
                IF ~IsStr(req.key) THEN Outcome(d, it, bt, Error("key must be a string"))
                ELSE IF ~Parses(DbGet(d, req.key))
                THEN Outcome(d, it, bt, Error(InvalidValue(DbGet(d, req.key))))
                ELSE Outcome(d, it, bt, Result(<<"val", DbGet(d, req.key)>>))
           [] req.method = "iterator" ->
                IF it.st # "none" THEN Outcome(d, it, bt, Error("Nesting iterators"))
                ELSE Outcome(d, NewIter(req.prefix, req.reverse, req.seek), bt, Result(RTrue))
           [] req.method = "next" -> ExecNext(d, it, bt)
           [] req.method = "close" -> Outcome(d, NoIter, bt, Result(RTrue))
           [] req.method = "batch_enter" ->
                IF bt.st # "none" THEN Outcome(d, it, bt, Error("Nesting batches"))
                ELSE Outcome(d, it, OpenBatch(<<>>), Result(RTrue))
           [] req.method = "batch_put" -> ExecBatchOp(d, it, bt, <<"put", req.key, req.val>>)
           [] req.method = "batch_delete" -> ExecBatchOp(d, it, bt, <<"delete", req.key, NoneV>>)
           [] req.method = "batch_exit" -> ExecBatchExit(d, it, bt)
           [] req.method = "batch_error" -> ExecBatchError(d, it, bt)
           [] OTHER -> Outcome(d, it, bt, Error("Unsupported method"))

\* while any(MDB.__get_locks(shm.buf)): tasks = MDB.__get_tasks(shm.buf).
\* The two reads are one step: only this process stores LOCK_FREE, so the
\* outcome of any() cannot change between them.
BrokerCheck ==
    /\ bpc = "check"
    /\ IF \E i \in Slots : lock[i] # LOCK_FREE
       THEN /\ tasks' = state
            /\ bi' = 0
            /\ bpc' = "serve"
       ELSE /\ bpc' = "teardown"
            /\ UNCHANGED <<tasks, bi>>
    /\ UNCHANGED <<libVars, regVars, capVars, cliVars, shmVars, iterators, batches, db, reply>>

\* if t == MDB.STATE_REQUEST: request = _get_request(i), executed against
\* the engine and the slot's sessions; the reply is written by BrokerReply.
BrokerServe ==
    /\ bpc = "serve"
    /\ IF tasks[bi] = STATE_REQUEST
       THEN LET o == Exec(frame[bi], db, iterators[bi], batches[bi]) IN
              /\ db' = o.db
              /\ iterators' = [iterators EXCEPT ![bi] = o.it]
              /\ batches' = [batches EXCEPT ![bi] = o.bt]
              /\ reply' = TryReply(o.reply)
              /\ bpc' = "reply"
       ELSE /\ bpc' = "clean"
            /\ UNCHANGED <<db, iterators, batches, reply>>
    /\ UNCHANGED <<libVars, regVars, capVars, cliVars, shmVars, bi, tasks>>

\* _put_responce(i, data): the reply frame, then state[i] = STATE_RESPONCE.
\* The local holding the reply is dead afterwards; the model empties it.
\* An error reply that does not fit raises BufferError inside the handler
\* of line 459: nothing is written, and the exception leaves the loops for
\* the finally block of the maintainer.
BrokerReply ==
    /\ bpc = "reply"
    /\ IF Fits(reply)
       THEN /\ frame' = [frame EXCEPT ![bi] = reply]
            /\ state' = [state EXCEPT ![bi] = STATE_RESPONCE]
            /\ bpc' = "clean"
       ELSE /\ UNCHANGED <<frame, state>>
            /\ bpc' = "teardown"
    /\ reply' = EmptyFrame
    /\ UNCHANGED <<libVars, regVars, capVars, cliVars, lock, uid, bi, tasks, iterators, batches, db>>

\* The end of the body of "for i, t in enumerate(tasks)", then sleep(TICK).
\* i and tasks are dead between two passes (the next pass assigns both); the
\* model holds 0 and the idle snapshot there.
BrokerAdvance ==
    IF bi + 1 < MAX_PROCESSES
    THEN /\ bi' = bi + 1
         /\ bpc' = "serve"
         /\ tasks' = tasks
    ELSE /\ bi' = 0
         /\ bpc' = "check"
         /\ tasks' = [i \in Slots |-> STATE_IDLE]

\* lock = shm.buf[MDB.__seek_lock(i)]; if lock == MDB.LOCK_CLEAN: the slot's
\* iterator is closed, its batch gets EOFError thrown in (the engine drops
\* it), the uid field is zeroed and the lock byte set to False.
BrokerClean ==
    /\ bpc = "clean"
    /\ IF lock[bi] = LOCK_CLEAN
       THEN /\ iterators' = [iterators EXCEPT ![bi] = NoIter]
            /\ batches' = [batches EXCEPT ![bi] = NoBatch]
            /\ uid' = [uid EXCEPT ![bi] = ZeroUid]
            /\ lock' = [lock EXCEPT ![bi] = LOCK_FREE]
       ELSE UNCHANGED <<iterators, batches, uid, lock>>
    /\ BrokerAdvance
    /\ UNCHANGED <<libVars, regVars, capVars, cliVars, state, frame, db, reply>>

\* The finally block of the maintainer: every iterator closed, every batch
\* rolled back, __clr_uids, __clr_locks, unlink.
BrokerTeardown ==
    /\ bpc = "teardown"
    /\ iterators' = [i \in Slots |-> NoIter]
    /\ batches' = [i \in Slots |-> NoBatch]
    /\ uid' = [i \in Slots |-> ZeroUid]
    /\ lock' = [i \in Slots |-> LOCK_FREE]
    /\ bpc' = "stopped"
    /\ bi' = 0
    /\ tasks' = [i \in Slots |-> STATE_IDLE]
    /\ region' = [region EXCEPT !.st = "unlinked", !.un = "maintainer"]
    /\ exiting' = exiting + 1
    /\ UNCHANGED <<libVars, capVars, cliVars, state, frame, db, reply>>

\* The maintainer function returns after its finally block (line 511) and
\* the process exits.
BrokerExit ==
    /\ exiting > 0
    /\ exiting' = exiting - 1
    /\ UNCHANGED <<libVars, capVars, cliVars, shmVars, brkVars, region>>

\* ----------------------------------------------- MDB.__init__: slot capture
SlotOf(idx) == idx % MAX_PROCESSES

\* "break" of the inner loop: on to the next idx, ExhaustedError after
\* MAX_PROCESSES**2 of them.
NextIdx(p) ==
    IF cidx[p] + 1 >= MAX_PROCESSES * MAX_PROCESSES
    THEN /\ cpc' = [cpc EXCEPT ![p] = "exhausted"]
         /\ cidx' = cidx
    ELSE /\ cpc' = [cpc EXCEPT ![p] = "rdlock"]
         /\ cidx' = [cidx EXCEPT ![p] = cidx[p] + 1]

\* locked = buf[self.__seek_lock(idx)]; if not locked: ... else break
CapReadLock(p) ==
    /\ cpc[p] = "rdlock"
    /\ IF lock[SlotOf(cidx[p])] # LOCK_FREE
       THEN NextIdx(p)
       ELSE /\ cpc' = [cpc EXCEPT ![p] = "rduidL"]
            /\ cidx' = cidx
    /\ UNCHANGED <<libVars, regVars, cuid, index, cliVars, shmVars, brkVars>>

\* uid = bytes(buf[seek: seek + UID_SIZE]): the copy is not atomic against
\* another process writing the field; it is read half by half.
CapReadUidL(p) ==
    /\ cpc[p] = "rduidL"
    /\ cuid' = [cuid EXCEPT ![p] = <<uid[SlotOf(cidx[p])][1], cuid[p][2]>>]
    /\ cpc' = [cpc EXCEPT ![p] = "rduidR"]
    /\ UNCHANGED <<libVars, regVars, cidx, index, cliVars, shmVars, brkVars>>

\* The decision taken on the uid read (lines 204, 218, 227).
CapDecide(p, u) ==
    IF u = ZeroUid \/ u[1] # u[2] THEN "wruidL"
    ELSE IF u = SelfUid(p) THEN "setlock"
    ELSE "zeroL"

CapReadUidR(p) ==
    /\ cpc[p] = "rduidR"
    /\ LET u == <<cuid[p][1], uid[SlotOf(cidx[p])][2]>> IN
         /\ cuid' = [cuid EXCEPT ![p] = u]
         /\ cpc' = [cpc EXCEPT ![p] = CapDecide(p, u)]
    /\ UNCHANGED <<libVars, regVars, cidx, index, cliVars, shmVars, brkVars>>

\* buf[seek: seek + UID_SIZE] = self.__uid, half by half; then sleep and
\* "continue" to the re-check.
CapWriteUidL(p) ==
    /\ cpc[p] = "wruidL"
    /\ uid' = [uid EXCEPT ![SlotOf(cidx[p])][1] = p]
    /\ cpc' = [cpc EXCEPT ![p] = "wruidR"]
    /\ UNCHANGED <<libVars, regVars, cidx, cuid, index, cliVars, lock, state, frame, brkVars>>

CapWriteUidR(p) ==
    /\ cpc[p] = "wruidR"
    /\ uid' = [uid EXCEPT ![SlotOf(cidx[p])][2] = p]
    /\ cpc' = [cpc EXCEPT ![p] = "rdlock"]
    /\ UNCHANGED <<libVars, regVars, cidx, cuid, index, cliVars, lock, state, frame, brkVars>>

\* buf[self.__seek_lock(idx)] = captured = True; self.index = idx % N; the
\* creator of the region then starts the maintainer process.
CapSetLock(p) ==
    /\ cpc[p] = "setlock"
    /\ lock' = [lock EXCEPT ![SlotOf(cidx[p])] = LOCK_LOCK]
    /\ index' = [index EXCEPT ![p] = SlotOf(cidx[p])]
    /\ cpc' = [cpc EXCEPT ![p] = "ready"]
    /\ bpc' = IF p = Creator /\ bpc = "off" THEN "check" ELSE bpc
    /\ UNCHANGED <<libVars, regVars, cidx, cuid, cliVars, uid, state, frame, bi, tasks, iterators, batches, db, reply>>

\* Another peer's uid is in the field: buf[seek: seek + UID_SIZE] = zeros,
\* then on to the next idx.
CapZeroL(p) ==
    /\ cpc[p] = "zeroL"
    /\ uid' = [uid EXCEPT ![SlotOf(cidx[p])][1] = 0]
    /\ cpc' = [cpc EXCEPT ![p] = "zeroR"]
    /\ UNCHANGED <<libVars, regVars, cidx, cuid, index, cliVars, lock, state, frame, brkVars>>

CapZeroR(p) ==
    /\ cpc[p] = "zeroR"
    /\ uid' = [uid EXCEPT ![SlotOf(cidx[p])][2] = 0]
    /\ NextIdx(p)
    /\ UNCHANGED <<libVars, regVars, cuid, index, cliVars, lock, state, frame, brkVars>>

\* shared_memory.SharedMemory(name=self.salt, create=False) of a new MDB
\* succeeds while the region has its name; the peer is then at the top of
\* its capture loop, and keeps the region mapped after an unlink.
Open(p) ==
    /\ cpc[p] = "closed"
    /\ region.st = "live"
    /\ cpc' = [cpc EXCEPT ![p] = "rdlock"]
    /\ cidx' = [cidx EXCEPT ![p] = 0]
    /\ cuid' = [cuid EXCEPT ![p] = ZeroUid]
    /\ UNCHANGED <<libVars, regVars, index, cliVars, shmVars, brkVars>>

\* ------------------------------------------------- the client side of MDB
NoCall == [m |-> "none", idle |-> TRUE, key |-> NonStrKey, val |-> NoneV]
OutOfScope == [in |-> FALSE, ops |-> <<>>]

\* A close() that calls shm.unlink() after shm.close().
CloseUnlinks(p) ==
    /\ cpc[p] = "ready"
    /\ index[p] >= 0
    /\ lock' = [lock EXCEPT ![index[p]] = LOCK_CLEAN]
    /\ index' = [index EXCEPT ![p] = -1]
    /\ cpc' = [cpc EXCEPT ![p] = "closed"]
    /\ ppc' = [ppc EXCEPT ![p] = "user"]
    /\ cur' = [cur EXCEPT ![p] = NoCall]
    /\ git' = [git EXCEPT ![p] = "none"]
    /\ wbs' = [wbs EXCEPT ![p] = OutOfScope]
    /\ region' = [region EXCEPT !.st = "unlinked", !.un = "peer"]
    /\ UNCHANGED <<libVars, exiting, cidx, cuid, uid, state, frame, brkVars, calls, ormVars>>

\* MDB.close(): the slot is handed to the maintainer for cleaning; the
\* object is unusable afterwards (self.shm = None, self.index = -1). It can
\* run at any point of the peer's code (an exception unwinding, __del__).
Close(p) ==
    /\ cpc[p] = "ready"
    /\ index[p] >= 0
    /\ lock' = [lock EXCEPT ![index[p]] = LOCK_CLEAN]
    /\ index' = [index EXCEPT ![p] = -1]
    /\ cpc' = [cpc EXCEPT ![p] = "closed"]
    /\ ppc' = [ppc EXCEPT ![p] = "user"]
    /\ cur' = [cur EXCEPT ![p] = NoCall]
    /\ git' = [git EXCEPT ![p] = "none"]
    /\ wbs' = [wbs EXCEPT ![p] = OutOfScope]
    /\ UNCHANGED <<libVars, regVars, cidx, cuid, uid, state, frame, brkVars, calls, ormVars>>

\* A new process constructs MDB on the existing region and runs the capture
\* loop with no other process inside it: idx advances past the slots whose
\* lock byte is set, the uid is written into the first free one and read
\* back unchanged after the pause, and the lock byte is set.
Attach(p) ==
    /\ cpc[p] = "closed"
    /\ bpc # "stopped"
    /\ \E i \in Slots :
         /\ lock[i] = LOCK_FREE
         /\ \A j \in Slots : j < i => lock[j] # LOCK_FREE
         /\ uid' = [uid EXCEPT ![i] = SelfUid(p)]
         /\ lock' = [lock EXCEPT ![i] = LOCK_LOCK]
         /\ index' = [index EXCEPT ![p] = i]
    /\ cpc' = [cpc EXCEPT ![p] = "ready"]
    /\ UNCHANGED <<libVars, regVars, cidx, cuid, cliVars, state, frame, brkVars>>

\* A main process constructs MDB when the region of the path does not
\* exist (FileNotFoundError, lines 164-173): it creates the region, which
\* is zero-filled, takes slot 0 in it and, being its creator, starts a
\* maintainer process (lines 247-261). The engine's content is on disk and
\* stays. The model follows one region at a time: the peers that were
\* attached to the unlinked one have closed.
Create(p) ==
    /\ region.st = "unlinked"
    /\ region.n < MaxRegions
    /\ \A q \in Procs : cpc[q] = "closed"
    /\ region' = [st |-> "live", by |-> "peer", un |-> "none", n |-> region.n + 1]
    /\ lock' = [i \in Slots |-> IF i = 0 THEN LOCK_LOCK ELSE LOCK_FREE]
    /\ uid' = [i \in Slots |-> IF i = 0 THEN SelfUid(p) ELSE ZeroUid]
    /\ state' = [i \in Slots |-> STATE_IDLE]
    /\ frame' = [i \in Slots |-> EmptyFrame]
    /\ index' = [index EXCEPT ![p] = 0]
    /\ cpc' = [cpc EXCEPT ![p] = "ready"]
    /\ bpc' = "check"
    /\ bi' = 0
    /\ tasks' = [i \in Slots |-> STATE_IDLE]
    /\ iterators' = [i \in Slots |-> NoIter]
    /\ batches' = [i \in Slots |-> NoBatch]
    /\ reply' = EmptyFrame
    /\ UNCHANGED <<libVars, cidx, cuid, cliVars, db, exiting>>

\* An id argument is a number, NoId for None, or BadId for a value that
\* LexoInt(...) rejects (a negative number, a string that is not a number).
NoId == 0 - 1
BadId == 0 - 2

\* The arguments of a select; seek is an id or NoId for None, and the
\* default limit is the largest integer.
MaxSize == 2147483647
SelArgs(reverse, inter, ckeys, seek, limit) ==
    [reverse |-> reverse, inter |-> inter, ckeys |-> ckeys, seek |-> seek, limit |-> limit]

\* What the last call of a peer returned: the call, its arguments (for a
\* select) and the rows.
NoArgs == SelArgs(FALSE, FALSE, <<>>, NoId, 0)
NoRet == [op |-> "none", args |-> NoArgs, rows |-> <<>>]
\* A call that ended with an exception of the class exc.
Raised(exc) == [op |-> exc, args |-> NoArgs, rows |-> <<>>]

Req(method, key, val) ==
    [kind |-> "request", method |-> method, key |-> key, val |-> val,
     prefix |-> "", reverse |-> FALSE, seek |-> NoSeek]
IterReq(prefix, reverse, seek) ==
    [kind |-> "request", method |-> "iterator", key |-> NonStrKey, val |-> NoneV,
     prefix |-> prefix, reverse |-> reverse, seek |-> seek]

\* What the maintainer's literal_eval makes of the text of a request.
Decoded(req) == [req EXCEPT !.val = Decode(req.val)]

\* while self.shm.buf[_lock]: self._put_request(data), then _wait_responce:
\* the frame is written, then state[self.index] = STATE_REQUEST. A request
\* whose text does not fit raises BufferError out of the call before either.
SendReq(p, req, idle) ==
    /\ cpc[p] = "ready"
    /\ calls > 0
    /\ calls' = calls - 1
    /\ lock[index[p]] # LOCK_FREE
    /\ IF Fits(req)
       THEN /\ frame' = [frame EXCEPT ![index[p]] = Decoded(req)]
            /\ state' = [state EXCEPT ![index[p]] = STATE_REQUEST]
            /\ ppc' = [ppc EXCEPT ![p] = "wait"]
            /\ cur' = [cur EXCEPT ![p] = [m |-> req.method, idle |-> idle,
                                          key |-> req.key, val |-> req.val]]
            /\ ret' = ret
       ELSE /\ ret' = [ret EXCEPT ![p] = Raised("BufferError")]
            /\ UNCHANGED <<frame, state, ppc, cur>>
    /\ UNCHANGED <<libVars, regVars, capVars, lock, uid, brkVars, git, wbs, orm, cache, done, ocalls>>

\* MDB.put / MDB.delete / MDB.get
Put(p, k, v) == ppc[p] = "user" /\ SendReq(p, Req("put", k, v), TRUE)
Delete(p, k) == ppc[p] = "user" /\ SendReq(p, Req("delete", k, NoneV), TRUE)
Get(p, k) == ppc[p] = "user" /\ SendReq(p, Req("get", k, NoneV), TRUE)

\* Blocks that hold no request of the client API: a literal that is not a
\* dict, a text that is no literal (the repr of an object()), a block
\* without a NUL byte, and a dict with an unknown method.
Raw(kind) == [Req("raw", NonStrKey, NoneV) EXCEPT !.kind = kind]
RawFrames == {Raw("notdict"), Raw("garbage"), Raw("nonul"), Req("zap", NonStrKey, NoneV)}

\* _put_request(data) with such data, or the block and the state byte
\* written by a process that attached the region by its name.
RawRequest(p, f) == ppc[p] = "user" /\ SendReq(p, f, TRUE)

\* MDB.iterator: the first next() of a new generator sends 'iterator'.
IterStart(p, prefix, reverse, seek) ==
    ppc[p] = "user" /\ SendReq(p, IterReq(prefix, reverse, seek), FALSE)

\* MDB.iterator, lines 604-607: 'next', from the generator right after its
\* 'iterator' request or at a next() of the caller.
IterNext(p) ==
    /\ ppc[p] = "gnext" \/ (ppc[p] = "user" /\ git[p] = "open")
    /\ SendReq(p, Req("next", NonStrKey, NoneV), FALSE)

\* A 'close' whose answer is awaited with idle=False.
IterCloseKeepsSlot(p) ==
    /\ ppc[p] = "gclose" \/ (ppc[p] = "user" /\ git[p] = "open")
    /\ SendReq(p, Req("close", NonStrKey, NoneV), FALSE)

\* MDB.iterator, the finally of lines 616-619: 'close', when the generator
\* returns, is closed by the caller or is left by an exception.
IterClose(p) ==
    /\ ppc[p] = "gclose" \/ (ppc[p] = "user" /\ git[p] = "open")
    /\ SendReq(p, Req("close", NonStrKey, NoneV), TRUE)

\* WriteBatch.__enter__ / put / delete / __exit__
BatchEnter(p) == ppc[p] = "user" /\ SendReq(p, Req("batch_enter", NonStrKey, NoneV), FALSE)
BatchPut(p, k, v) ==
    /\ ppc[p] = "user" /\ wbs[p].in /\ Len(wbs[p].ops) < MaxBatchOps
    /\ SendReq(p, Req("batch_put", k, v), FALSE)
BatchDelete(p, k) ==
    /\ ppc[p] = "user" /\ wbs[p].in /\ Len(wbs[p].ops) < MaxBatchOps
    /\ SendReq(p, Req("batch_delete", k, NoneV), FALSE)
BatchExit(p) ==
    ppc[p] = "user" /\ wbs[p].in /\ SendReq(p, Req("batch_exit", NonStrKey, NoneV), TRUE)
BatchError(p) ==
    ppc[p] = "user" /\ wbs[p].in /\ SendReq(p, Req("batch_error", NonStrKey, NoneV), TRUE)

\* A generator without the finally of lines 615-619: an error reply to
\* 'next' leaves it with no 'close' sent.
AfterPcNoFinally(m, res) ==
    CASE m = "iterator" -> IF res.kind = "result" THEN "gnext" ELSE "user"
      [] m = "next" -> IF res.kind = "result" /\ res.result = RStop THEN "gclose" ELSE "user"
      [] OTHER -> "user"

\* Where the peer's code goes once _wait_responce returned res (or raised
\* RuntimeError for an 'error' reply) for the call m.
AfterPc(m, res) ==
    CASE m = "iterator" -> IF res.kind = "result" THEN "gnext" ELSE "user"
      [] m = "next" -> IF res.kind = "result" /\ res.result # RStop THEN "user" ELSE "gclose"
      [] OTHER -> "user"
AfterGit(m, res, g) ==
    CASE m = "iterator" -> IF res.kind = "result" THEN "open" ELSE g
      [] m = "close" -> "none"
      [] OTHER -> g
AfterWbs(c, res, w) ==
    CASE c.m = "batch_enter" ->
            IF res.kind = "result" THEN [in |-> TRUE, ops |-> <<>>] ELSE w
      [] c.m = "batch_put" ->
            IF res.kind = "result"
            THEN [w EXCEPT !.ops = Append(w.ops, <<"put", c.key, c.val>>)] ELSE w
      [] c.m = "batch_delete" ->
            IF res.kind = "result"
            THEN [w EXCEPT !.ops = Append(w.ops, <<"delete", c.key, NoneV>>)] ELSE w
      [] c.m \in {"batch_exit", "batch_error"} -> OutOfScope
      [] OTHER -> w

\* MDB._wait_responce once state[self.index] == STATE_RESPONCE: the frame is
\* read and, with idle, the state byte is set to STATE_IDLE. The reply stays
\* in the block until the next request overwrites it and nothing reads it in
\* between (the maintainer reads a block only under STATE_REQUEST, which is
\* stored together with the request); the model empties the block.
Receive(p) ==
    /\ cpc[p] = "ready"
    /\ ppc[p] = "wait"
    /\ lock[index[p]] # LOCK_FREE
    /\ state[index[p]] = STATE_RESPONCE
    /\ LET res == frame[index[p]] IN
         /\ ppc' = [ppc EXCEPT ![p] = AfterPc(cur[p].m, res)]
         /\ git' = [git EXCEPT ![p] = AfterGit(cur[p].m, res, git[p])]
         /\ wbs' = [wbs EXCEPT ![p] = AfterWbs(cur[p], res, wbs[p])]
    /\ state' = IF cur[p].idle THEN [state EXCEPT ![index[p]] = STATE_IDLE] ELSE state
    /\ cur' = [cur EXCEPT ![p] = NoCall]
    /\ frame' = [frame EXCEPT ![index[p]] = EmptyFrame]
    /\ UNCHANGED <<libVars, regVars, capVars, lock, uid, brkVars, calls, ormVars>>

\* The else of "while self.shm.buf[_lock]" in _wait_responce and in the
\* callers: ConnectionError("Workflow completed"); no 'close' is sent by the
\* iterator's finally, the lock byte being False.
Disconnected(p) ==
    /\ cpc[p] = "ready"
    /\ ppc[p] # "user"
    /\ lock[index[p]] = LOCK_FREE
    /\ ppc' = [ppc EXCEPT ![p] = "user"]
    /\ cur' = [cur EXCEPT ![p] = NoCall]
    /\ git' = [git EXCEPT ![p] = "none"]
    /\ wbs' = [wbs EXCEPT ![p] = OutOfScope]
    /\ UNCHANGED <<libVars, regVars, capVars, shmVars, brkVars, calls, ormVars>>

\* A call of the client API on an MDB whose close() has run: self.shm is
\* None, and "while self.shm.buf[_lock]" raises AttributeError before
\* anything is read or written.
CallClosed(p) ==
    /\ cpc[p] = "closed"
    /\ calls > 0
    /\ calls' = calls - 1
    /\ ret' = [ret EXCEPT ![p] = Raised("AttributeError")]
    /\ UNCHANGED <<libVars, regVars, capVars, shmVars, brkVars, ppc, cur, git, wbs, orm, cache, done, ocalls>>

\* A call of the client API when the lock byte of the slot is False: the
\* while loop is not entered and ConnectionError("Workflow completed") is
\* raised.
CallDisconnected(p) ==
    /\ cpc[p] = "ready"
    /\ ppc[p] = "user"
    /\ lock[index[p]] = LOCK_FREE
    /\ calls > 0
    /\ calls' = calls - 1
    /\ ret' = [ret EXCEPT ![p] = Raised("ConnectionError")]
    /\ UNCHANGED <<libVars, regVars, capVars, shmVars, brkVars, ppc, cur, git, wbs, orm, cache, done, ocalls>>

\* ------------------------------------------------------ src/orm.py: MDBOrm
\* Every engine access of an ORM call is one MDB call, served by the
\* maintainer in one step while the caller waits; the ORM actions below take
\* it as one step on the engine's content. The operations a write_batch scope
\* sends are buffered by the maintainer and written when batch_exit is
\* served: the scope is the one step that writes them.

\* str(LexoInt(n, size=w)): the decimal digits of n, zero-filled to w.
RECURSIVE Digits(_, _)
Digits(n, w) == IF w = 0 THEN <<>> ELSE Append(Digits(n \div 10, w - 1), n % 10)
LexoStr(n) == Digits(n, LEXOINT_SIZE)

\* LexoInt(s, size=LEXOINT_SIZE) of a string of digits: its integer value.
RECURSIVE LexoVal(_)
LexoVal(s) ==
    IF s = <<>> THEN 0 ELSE 10 * LexoVal(SubSeq(s, 1, Len(s) - 1)) + s[Len(s)]

\* MDBOrm._islexointstring
IsLexoIntString(s) == Len(s) = LEXOINT_SIZE /\ \A j \in 1..Len(s) : s[j] \in 0..9

\* The keys of the table (type(data).__name__ is "T").
Table == "T"
RowPrefix == Table \o "."
IndexPrefix(ckey) == Table \o "s." \o ckey \o "."
RowKey(lexo) == <<RowPrefix, lexo>>
IndexKey(ckey, lexo) == <<IndexPrefix(ckey), lexo>>
WcountKey == <<Table \o "#wcount", <<>>>>

\* super().get(table[:-1] + '#wcount') or 0
Wcount(d) == IF WcountKey \in DOMAIN d THEN d[WcountKey] ELSE 0

\* MDBOrm._lexocount: the id after the last row's, zero for an empty table.
Lexocount(d) ==
    LET rows == SelectSeq(DbIterator(d, RowPrefix, TRUE, NoSeek),
                          LAMBDA kv : IsLexoIntString(kv[1]))
    IN IF rows = <<>> THEN LexoStr(0) ELSE LexoStr(LexoVal(rows[1][1]) + 1)

\* The data of a record: two optional entries. A row is the data with its id
\* and the ckeys it is indexed under; NoRow stands for None.
Absent == "<absent>"
NoData == [role |-> Absent, nick |-> Absent]
NoRow == [id |-> <<>>, role |-> Absent, nick |-> Absent, ckeys |-> <<>>]
Row(lexo, data, ckeys) ==
    [id |-> lexo, role |-> data.role, nick |-> data.nick, ckeys |-> ckeys]

\* The index keys of the model (ikeys): two lambda sources, and 'items'.
PRole == "lambda m: 'role=' + m['role']"
PNick == "lambda m: 'nick=' + m['nick']"
ModelIkeys == {"items", PRole, PNick}

\* One turn of the loop of __calculate_index: eval(ikey) and, when the
\* result is callable, its value on the data; Ellipsis when it raises; the
\* ikey itself when it does not evaluate.
EvalIkey(ikey, data) ==
    CASE ikey = PRole -> IF data.role = Absent THEN "Ellipsis" ELSE "role=" \o data.role
      [] ikey = PNick -> IF data.nick = Absent THEN "Ellipsis" ELSE "nick=" \o data.nick
      [] OTHER -> ikey

\* The orders a set can be iterated in.
Orders(S) ==
    {q \in [1..Cardinality(S) -> S] : \A a \in DOMAIN q : \A b \in DOMAIN q : a # b => q[a] # q[b]}

\* MDBOrm.__calculate_index for one iteration order of ikeys_set.
CalculateIndex(order, data) == [j \in DOMAIN order |-> EvalIkey(order[j], data)]

Range(q) == {q[j] : j \in DOMAIN q}

\* The batch operations of the three writers.
IndexPuts(ckeys, ikeys, lexo) ==
    [j \in DOMAIN ckeys |-> <<"put", IndexKey(ckeys[j], lexo), ikeys[j]>>]
IndexDeletes(ckeys, lexo) ==
    [j \in DOMAIN ckeys |-> <<"delete", IndexKey(ckeys[j], lexo), NoneV>>]

\* _data.update(data); data.update(_data): the entries given replace the
\* stored ones.
MergeData(old, new) ==
    [role |-> IF new.role = Absent THEN old.role ELSE new.role,
     nick |-> IF new.nick = Absent THEN old.nick ELSE new.nick]

\* The position of a peer in an ORM call and the call's locals.
OrmIdle == [op |-> "idle", pc |-> "", data |-> NoData, lexo |-> <<>>, wc |-> 0,
            old |-> NoRow, srcs |-> {}]
EmptyCache == [a \in {} |-> <<>>]
\* with self.plock: the mutex of the peer, shared by the threads of one
\* process only. A peer runs one call at a time here, so its mutex is free
\* whenever the peer is between calls; the other peers never hold it.
Plock(p) == orm[p].op = "idle"

OrmBegin(p) ==
    /\ cpc[p] = "ready"
    /\ Plock(p)
    /\ ocalls > 0
    /\ ocalls' = ocalls - 1

transportVars == <<lock, uid, cpc, cidx, cuid, index, bpc, bi, tasks, state, frame,
                   iterators, batches, reply, ppc, cur, git, wbs, calls, regVars, libVars>>

\* MDBOrm._insert up to lexocount = self._lexocount(table).
InsertLexocount(p, data) ==
    /\ OrmBegin(p)
    /\ orm' = [orm EXCEPT ![p] = [OrmIdle EXCEPT !.op = "insert", !.pc = "wcount",
                                               !.data = data, !.lexo = Lexocount(db)]]
    /\ UNCHANGED <<transportVars, db, cache, ret, done>>

\* wcount = super().get(table[:-1] + '#wcount') or 0
InsertWcount(p) ==
    /\ orm[p].op = "insert" /\ orm[p].pc = "wcount"
    /\ orm' = [orm EXCEPT ![p].wc = Wcount(db), ![p].pc = "commit"]
    /\ UNCHANGED <<transportVars, db, cache, ret, done, ocalls>>

\* The write_batch scope of _insert and self.select_caches.pop(table, None).
InsertCommit(p) ==
    /\ orm[p].op = "insert" /\ orm[p].pc = "commit"
    /\ \E order \in Orders(ModelIkeys) :
         LET ckeys == CalculateIndex(order, orm[p].data)
             row == Row(orm[p].lexo, orm[p].data, ckeys)
             ops == IndexPuts(ckeys, order, orm[p].lexo)
                    \o << <<"put", RowKey(orm[p].lexo), row>>,
                          <<"put", WcountKey, orm[p].wc + 1>> >>
         IN db' = ApplyBatch(db, ops)
    /\ cache' = [cache EXCEPT ![p] = EmptyCache]
    /\ orm' = [orm EXCEPT ![p] = OrmIdle]
    /\ done' = [done EXCEPT !.ins = @ + 1,
                           !.top = IF LexoVal(orm[p].lexo) > @ THEN LexoVal(orm[p].lexo) ELSE @]
    /\ UNCHANGED <<transportVars, ret, ocalls>>

\* MDBOrm._remove up to wcount = super().get(...) or 0 (the id parses).
RemoveWcount(p, id) ==
    /\ OrmBegin(p)
    /\ IF id = BadId
       THEN orm' = orm
       ELSE orm' = [orm EXCEPT ![p] = [OrmIdle EXCEPT !.op = "remove", !.pc = "row",
                                                  !.lexo = LexoStr(id), !.wc = Wcount(db)]]
    /\ UNCHANGED <<transportVars, db, cache, ret, done>>

\* A faulty remove that goes on to its write batch when the row is gone.
RemoveRowAlways(p) ==
    /\ orm[p].op = "remove" /\ orm[p].pc = "row"
    /\ orm' = [orm EXCEPT ![p].old = IF RowKey(orm[p].lexo) \in DOMAIN db
                                      THEN db[RowKey(orm[p].lexo)] ELSE NoRow,
                           ![p].pc = "commit"]
    /\ UNCHANGED <<transportVars, db, cache, ret, done, ocalls>>

\* data = super().get(table + lexocount); nothing more when it is None.
RemoveRow(p) ==
    /\ orm[p].op = "remove" /\ orm[p].pc = "row"
    /\ IF RowKey(orm[p].lexo) \in DOMAIN db
       THEN orm' = [orm EXCEPT ![p].old = db[RowKey(orm[p].lexo)], ![p].pc = "commit"]
       ELSE orm' = [orm EXCEPT ![p] = OrmIdle]
    /\ UNCHANGED <<transportVars, db, cache, ret, done, ocalls>>

\* The write_batch scope of _remove and the cache drop.
RemoveCommit(p) ==
    /\ orm[p].op = "remove" /\ orm[p].pc = "commit"
    /\ db' = ApplyBatch(db, IndexDeletes(orm[p].old.ckeys, orm[p].lexo)
                            \o << <<"delete", RowKey(orm[p].lexo), NoneV>>,
                                  <<"put", WcountKey, orm[p].wc + 1>> >>)
    /\ cache' = [cache EXCEPT ![p] = EmptyCache]
    /\ orm' = [orm EXCEPT ![p] = OrmIdle]
    /\ done' = [done EXCEPT !.oth = @ + 1]
    /\ UNCHANGED <<transportVars, ret, ocalls>>

\* MDBOrm._update up to wcount = super().get(...) or 0 (the id parses).
\* An id that does not parse raises ReferenceError.
UpdateWcount(p, id, data) ==
    /\ OrmBegin(p)
    /\ IF id = BadId
       THEN /\ orm' = orm
            /\ ret' = [ret EXCEPT ![p] = Raised("ReferenceError")]
       ELSE /\ orm' = [orm EXCEPT ![p] = [OrmIdle EXCEPT !.op = "update", !.pc = "row",
                                                       !.data = data, !.lexo = LexoStr(id),
                                                       !.wc = Wcount(db)]]
            /\ ret' = ret
    /\ UNCHANGED <<transportVars, db, cache, done>>

\* A faulty update that writes the row when there is none to update.
UpdateRowUpserts(p) ==
    /\ orm[p].op = "update" /\ orm[p].pc = "row"
    /\ orm' = [orm EXCEPT ![p].old = IF RowKey(orm[p].lexo) \in DOMAIN db
                                      THEN db[RowKey(orm[p].lexo)] ELSE NoRow,
                           ![p].pc = "index"]
    /\ UNCHANGED <<transportVars, db, cache, ret, done, ocalls>>

\* _data = super().get(table + lexocount); LookupError when it is None.
UpdateRow(p) ==
    /\ orm[p].op = "update" /\ orm[p].pc = "row"
    /\ IF RowKey(orm[p].lexo) \in DOMAIN db
       THEN /\ orm' = [orm EXCEPT ![p].old = db[RowKey(orm[p].lexo)], ![p].pc = "index"]
            /\ ret' = ret
       ELSE /\ orm' = [orm EXCEPT ![p] = OrmIdle]
            /\ ret' = [ret EXCEPT ![p] = Raised("LookupError")]
    /\ UNCHANGED <<transportVars, db, cache, done, ocalls>>

\* ikeys_set = { _get(table[:-1] + 's.' + ckey + '.' + lexocount) for ckey in
\* _ckeys }: the gets, served one after the other. A missing entry gives
\* None, which __calculate_index turns into the ikey 'None'.
UpdateIndex(p) ==
    /\ orm[p].op = "update" /\ orm[p].pc = "index"
    /\ orm' = [orm EXCEPT
                 ![p].srcs = {IF IndexKey(c, orm[p].lexo) \in DOMAIN db
                              THEN db[IndexKey(c, orm[p].lexo)] ELSE "None" :
                              c \in Range(orm[p].old.ckeys)},
                 ![p].pc = "commit"]
    /\ UNCHANGED <<transportVars, db, cache, ret, done, ocalls>>

\* The write_batch scope of _update and the cache drop.
UpdateCommit(p) ==
    /\ orm[p].op = "update" /\ orm[p].pc = "commit"
    /\ \E order \in Orders(orm[p].srcs) :
         LET data == MergeData(orm[p].old, orm[p].data)
             ckeys == CalculateIndex(order, data)
             row == Row(orm[p].lexo, data, ckeys)
             ops == IndexDeletes(orm[p].old.ckeys, orm[p].lexo)
                    \o IndexPuts(ckeys, order, orm[p].lexo)
                    \o << <<"put", RowKey(orm[p].lexo), row>>,
                          <<"put", WcountKey, orm[p].wc + 1>> >>
         IN db' = ApplyBatch(db, ops)
    /\ cache' = [cache EXCEPT ![p] = EmptyCache]
    /\ orm' = [orm EXCEPT ![p] = OrmIdle]
    /\ done' = [done EXCEPT !.oth = @ + 1]
    /\ UNCHANGED <<transportVars, ret, ocalls>>

\* A faulty seek that is used verbatim in both directions.
SelectSeekVerbatim(reverse, seek) ==
    IF seek = NoId THEN NoSeek ELSE LexoStr(seek)

\* seek = LexoInt(seek, size=LEXOINT_SIZE); if reverse: seek += 1; str(seek)
SelectSeek(reverse, seek) ==
    IF seek = NoId THEN NoSeek ELSE LexoStr(IF reverse THEN seek + 1 ELSE seek)

\* A faulty test that accepts a row holding any one of the ckeys.
HasAnyCkey(val, ckeys) == \E j \in DOMAIN ckeys : ckeys[j] \in Range(val.ckeys)

\* all( str(k) in _ckeys for k in ckeys ) on the stored ckeys of a row.
HasAllCkeys(val, ckeys) == \A j \in DOMAIN ckeys : ckeys[j] \in Range(val.ckeys)

\* The inner loop of _select over the pairs one iterator yields. st holds
\* ids, result, count, whether a break has left the loops, and whether
\* val.get has raised on a missing row.
RECURSIVE ScanIds(_, _, _, _)
ScanIds(d, pairs, st, a) ==
    IF pairs = <<>> \/ st.stop THEN st
    ELSE LET lexo == Head(pairs)[1]
             st1 == [st EXCEPT !.ids = @ \cup {lexo}]
         IN IF lexo \in st.ids \/ ~IsLexoIntString(lexo)
            THEN ScanIds(d, Tail(pairs), st1, a)
            ELSE IF RowKey(lexo) \notin DOMAIN d
            THEN IF a.inter
                 THEN [st1 EXCEPT !.stop = TRUE, !.err = TRUE]
                 ELSE LET st2 == [st1 EXCEPT !.result = Append(@, NoRow), !.count = @ + 1]
                      IN IF st2.count >= a.limit THEN [st2 EXCEPT !.stop = TRUE]
                         ELSE ScanIds(d, Tail(pairs), st2, a)
            ELSE LET val == d[RowKey(lexo)]
                     st2 == [st1 EXCEPT !.result = Append(@, val), !.count = @ + 1]
                 IN IF a.inter /\ ~HasAllCkeys(val, a.ckeys)
                    THEN ScanIds(d, Tail(pairs), st1, a)
                    ELSE IF st2.count >= a.limit THEN [st2 EXCEPT !.stop = TRUE]
                    ELSE ScanIds(d, Tail(pairs), st2, a)

\* The outer loop of _select over ckeys.
RECURSIVE ScanCkeys(_, _, _, _)
ScanCkeys(d, cks, st, a) ==
    IF cks = <<>> \/ st.stop THEN st
    ELSE ScanCkeys(d, Tail(cks),
                   ScanIds(d, DbIterator(d, IndexPrefix(Head(cks)), a.reverse,
                                         SelectSeek(a.reverse, a.seek)), st, a),
                   a)

\* What _select computes from the store.
SelectCompute(d, a) ==
    IF a.limit <= 0 THEN [ids |-> {}, result |-> <<>>, count |-> 0, stop |-> FALSE, err |-> FALSE]
    ELSE ScanCkeys(d, a.ckeys,
                   [ids |-> {}, result |-> <<>>, count |-> 0, stop |-> FALSE, err |-> FALSE], a)

\* MDBOrm._select with the process's cache: a hit returns the cached list,
\* a miss computes it and stores it (nothing is stored when it raises or
\* when limit <= 0).
SelectResult(c, d, a) ==
    IF a.limit > 0 /\ a \in DOMAIN c THEN c[a] ELSE SelectCompute(d, a).result
SelectCache(c, d, a) ==
    IF a.limit > 0 /\ a \notin DOMAIN c /\ ~SelectCompute(d, a).err
    THEN [x \in DOMAIN c \cup {a} |-> IF x = a THEN SelectCompute(d, a).result ELSE c[x]]
    ELSE c

Select(p, a) ==
    /\ OrmBegin(p)
    /\ ret' = [ret EXCEPT ![p] = [op |-> "select", args |-> a, rows |-> SelectResult(cache[p], db, a)]]
    /\ cache' = [cache EXCEPT ![p] = SelectCache(cache[p], db, a)]
    /\ UNCHANGED <<transportVars, db, orm, done>>

\* MDBOrm._getrow: _select(table, reverse=True, seek=table_id + 1, limit=1)
\* and the check of the id of the row it gives.
GetRowArgs(id) == SelArgs(TRUE, TRUE, <<"items">>, id + 1, 1)
GetRowResult(rows, id) ==
    IF rows = <<>> THEN <<>>
    ELSE IF LexoVal(rows[1].id) # id THEN <<>> ELSE <<rows[1]>>

GetRow(p, id) ==
    /\ OrmBegin(p)
    /\ ret' = [ret EXCEPT ![p] =
                 [op |-> "getrow", args |-> GetRowArgs(id),
                  rows |-> GetRowResult(SelectResult(cache[p], db, GetRowArgs(id)), id)]]
    /\ cache' = [cache EXCEPT ![p] = SelectCache(cache[p], db, GetRowArgs(id))]
    /\ UNCHANGED <<transportVars, db, orm, done>>

\* A second table, U, of the same store: its first row, the row's 'items'
\* index entry and the table's counter.
OtherRowKey == <<"U.", LexoStr(0)>>
OtherInsert ==
    << <<"put", <<"Us.items.", LexoStr(0)>>, "items">>,
       <<"put", OtherRowKey, Row(LexoStr(0), NoData, <<"items">>)>>,
       <<"put", <<"U#wcount", <<>>>>, 1>> >>

\* An insert that drops the cache of every table.
InsertOtherDropsAll(p) ==
    /\ OrmBegin(p)
    /\ OtherRowKey \notin DOMAIN db
    /\ db' = ApplyBatch(db, OtherInsert)
    /\ cache' = [cache EXCEPT ![p] = EmptyCache]
    /\ UNCHANGED <<transportVars, orm, ret, done>>

\* MDBOrm._insert on the empty table U, as one step: its batch is written
\* and self.select_caches.pop('U.', None) leaves the entry of table T.
InsertOther(p) ==
    /\ OrmBegin(p)
    /\ OtherRowKey \notin DOMAIN db
    /\ db' = ApplyBatch(db, OtherInsert)
    /\ cache' = cache
    /\ UNCHANGED <<transportVars, orm, ret, done>>

\* What the calls of a second MDBOrm object of the process, constructed on
\* another path, leave unchanged: it has a region, a slot and a maintainer of
\* its own, and every request of a call is answered before the next.
OtherPathFrame == <<capVars, shmVars, brkVars, regVars, lex, sys, ppc, cur, git, wbs, calls, orm, done>>

\* insert of a record of the model T through the second object: _insert
\* on the other path's engine, then self.select_caches.pop(table, None),
\* select_caches being the one dict of the class MDBOrm.
OtherPathInsert(p, data) ==
    /\ OrmBegin(p)
    /\ \E order \in Orders(ModelIkeys) :
         LET lexo == Lexocount(odb)
             ckeys == CalculateIndex(order, data)
             ops == IndexPuts(ckeys, order, lexo)
                    \o << <<"put", RowKey(lexo), Row(lexo, data, ckeys)>>,
                          <<"put", WcountKey, Wcount(odb) + 1>> >>
         IN odb' = ApplyBatch(odb, ops)
    /\ cache' = [cache EXCEPT ![p] = EmptyCache]
    /\ ret' = ret
    /\ UNCHANGED OtherPathFrame

\* select of the model T through the second object: _select looks the
\* arguments up in MDBOrm.select_caches[table] and reads the other path's
\* engine only when they are not there.
OtherPathSelect(p, a) ==
    /\ OrmBegin(p)
    /\ ret' = [ret EXCEPT ![p] = [op |-> "select", args |-> a,
                                  rows |-> SelectResult(cache[p], odb, a)]]
    /\ cache' = [cache EXCEPT ![p] = SelectCache(cache[p], odb, a)]
    /\ odb' = odb
    /\ UNCHANGED OtherPathFrame

\* ------------------------------------------------ src/lexoint.py: LexoInt
\* The size of a key built without one ("size or 16").
DefaultSize == 16

\* int.__repr__ of a number that is not negative: its decimal digits.
RECURSIVE Repr(_)
Repr(n) == IF n < 10 THEN <<n>> ELSE Append(Repr(n \div 10), n % 10)

\* A zfill that leaves the text as it is.
ZfillNone(s, w) == s

\* str.zfill(w): zeros in front, up to w characters; a longer text is kept.
Zfill(s, w) ==
    IF Len(s) >= w THEN s
    ELSE [j \in 1..w |-> IF j <= w - Len(s) THEN 0 ELSE s[j - (w - Len(s))]]

\* LexoInt(v, size=size), lines 32-50; size 0 stands for None. The result is
\* the key, or the ValueError of a negative number or of one with more
\* digits than size.
LexoInt(v, size) ==
    LET sz == IF size = 0 THEN DefaultSize ELSE size
    IN IF v < 0 \/ Len(Repr(v)) > sz
       THEN [err |-> "ValueError", val |-> v, size |-> sz]
       ELSE [err |-> "", val |-> v, size |-> sz]

\* LexoInt.__str__
LexoIntStr(x) == Zfill(Repr(x.val), x.size)

\* A wrapper that does not hand the size on.
LexoAddDefault(x, k) == LexoInt(x.val + k, 0)

\* The wrappers of __add__ and __sub__ made by the metaclass, line 21:
\* type(self)(mtd(self, other), size=getattr(self, 'size', None)).
LexoAdd(x, k) == LexoInt(x.val + k, x.size)
LexoSub(x, k) == LexoInt(x.val - k, x.size)

NoKey == [err |-> "none", val |-> 0, size |-> 0]
NoLex == [w |-> 0, a |-> 0, k |-> 0, op |-> "none", x |-> NoKey, y |-> NoKey,
          out |-> NoKey, sa |-> <<>>, sb |-> <<>>]

\* x = LexoInt(a, size=w); y = LexoInt(k, size=w)
LexoNew ==
    /\ lex.op = "none"
    /\ lex' = [lex EXCEPT !.op = "new", !.x = LexoInt(lex.a, lex.w),
                          !.y = LexoInt(lex.k, lex.w)]
    /\ UNCHANGED <<capVars, cliVars, shmVars, brkVars, regVars, sys, odb>>

\* str(x), str(y) of two keys
LexoStrs ==
    /\ lex.op = "new"
    /\ lex.x.err = "" /\ lex.y.err = ""
    /\ lex' = [lex EXCEPT !.op = "str", !.sa = LexoIntStr(lex.x), !.sb = LexoIntStr(lex.y)]
    /\ UNCHANGED <<capVars, cliVars, shmVars, brkVars, regVars, sys, odb>>

\* x + k
LexoPlus ==
    /\ lex.op = "new"
    /\ lex.x.err = ""
    /\ lex' = [lex EXCEPT !.op = "add", !.out = LexoAdd(lex.x, lex.k)]
    /\ UNCHANGED <<capVars, cliVars, shmVars, brkVars, regVars, sys, odb>>

\* x - k
LexoMinus ==
    /\ lex.op = "new"
    /\ lex.x.err = ""
    /\ lex' = [lex EXCEPT !.op = "sub", !.out = LexoSub(lex.x, lex.k)]
    /\ UNCHANGED <<capVars, cliVars, shmVars, brkVars, regVars, sys, odb>>

\* ------------------------------------------------ src/syslock.py: SysLock
\* Every process has its own SysLock object of the one name. sentinel:
\* whether the named region exists; shm[p]: self.shm is set; n: calls left.
NoSys == [sentinel |-> FALSE,
          pc |-> [p \in Procs |-> "idle"],
          shm |-> [p \in Procs |-> FALSE],
          ret |-> [p \in Procs |-> "none"],
          n |-> 0]

\* acquire() is called.
SysAcquire(p) ==
    /\ sys.pc[p] = "idle"
    /\ ~sys.shm[p]
    /\ sys.n > 0
    /\ sys' = [sys EXCEPT !.pc[p] = "acquire", !.n = @ - 1]
    /\ UNCHANGED <<capVars, cliVars, shmVars, brkVars, regVars, lex, odb>>

\* A create that succeeds although the region exists.
SysCreateShared(p) ==
    /\ sys.pc[p] = "acquire"
    /\ sys' = [sys EXCEPT !.sentinel = TRUE, !.shm[p] = TRUE, !.pc[p] = "held",
                          !.ret[p] = "True"]
    /\ UNCHANGED <<capVars, cliVars, shmVars, brkVars, regVars, lex, odb>>

\* SharedMemory(name=self.name, create=True, ...) in the loop of acquire():
\* the operating system creates the region only if none of the name exists;
\* acquire() then returns True. With FileExistsError the loop sleeps TICK
\* and tries again, which changes nothing.
SysCreate(p) ==
    /\ sys.pc[p] = "acquire"
    /\ ~sys.sentinel
    /\ sys' = [sys EXCEPT !.sentinel = TRUE, !.shm[p] = TRUE, !.pc[p] = "held",
                          !.ret[p] = "True"]
    /\ UNCHANGED <<capVars, cliVars, shmVars, brkVars, regVars, lex, odb>>

\* release() is called: RuntimeError if self.shm is not set, else
\* self.shm.close().
SysRelease(p) ==
    /\ sys.pc[p] \in {"idle", "held"}
    /\ sys.n > 0
    /\ IF ~sys.shm[p]
       THEN sys' = [sys EXCEPT !.ret[p] = "RuntimeError", !.n = @ - 1]
       ELSE sys' = [sys EXCEPT !.pc[p] = "release", !.n = @ - 1]
    /\ UNCHANGED <<capVars, cliVars, shmVars, brkVars, regVars, lex, odb>>

\* self.shm.unlink(); self.shm = None
SysUnlink(p) ==
    /\ sys.pc[p] = "release"
    /\ sys' = [sys EXCEPT !.sentinel = FALSE, !.shm[p] = FALSE, !.pc[p] = "idle",
                          !.ret[p] = "None"]
    /\ UNCHANGED <<capVars, cliVars, shmVars, brkVars, regVars, lex, odb>>

\* ------------------------------------------------------------ SpecCapture
\* The region as its creator finds it, and peers that have called nothing.
InitSlots ==
    /\ region = [st |-> "live", by |-> "peer", un |-> "none", n |-> 1]
    /\ exiting = 0
    /\ state = [i \in Slots |-> STATE_IDLE]
    /\ frame = [i \in Slots |-> EmptyFrame]
    /\ iterators = [i \in Slots |-> NoIter]
    /\ batches = [i \in Slots |-> NoBatch]
    /\ tasks = [i \in Slots |-> STATE_IDLE]
    /\ bi = 0
    /\ reply = EmptyFrame
    /\ ppc = [p \in Procs |-> "user"]
    /\ cur = [p \in Procs |-> NoCall]
    /\ git = [p \in Procs |-> "none"]
    /\ wbs = [p \in Procs |-> OutOfScope]
    /\ orm = [p \in Procs |-> OrmIdle]
    /\ cache = [p \in Procs |-> EmptyCache]
    /\ ret = [p \in Procs |-> NoRet]
    /\ done = [ins |-> 0, oth |-> 0, top |-> NoId]

InitShared ==
    /\ lex = NoLex
    /\ sys = NoSys
    /\ odb = EmptyDb
    /\ InitSlots

\* The region has just been created by the Creator (zero-filled); every peer
\* is at the top of its capture loop and the maintainer is not started yet.
InitCapture ==
    /\ InitShared
    /\ calls = 0
    /\ ocalls = 0
    /\ lock = [i \in Slots |-> LOCK_FREE]
    /\ uid = [i \in Slots |-> ZeroUid]
    /\ db = EmptyDb
    /\ bpc = "off"
    /\ cpc = [p \in Procs |-> "rdlock"]
    /\ cidx = [p \in Procs |-> 0]
    /\ cuid = [p \in Procs |-> ZeroUid]
    /\ index = [p \in Procs |-> -1]

Capture(p) ==
    \/ CapReadLock(p)
    \/ CapReadUidL(p)
    \/ CapReadUidR(p)
    \/ CapWriteUidL(p)
    \/ CapWriteUidR(p)
    \/ CapSetLock(p)
    \/ CapZeroL(p)
    \/ CapZeroR(p)

NextCapture ==
    \/ \E p \in Procs : Capture(p)
    \/ \E p \in Procs : Close(p)
    \/ BrokerCheck
    \/ BrokerServe
    \/ BrokerClean
    \/ BrokerTeardown

SpecCapture == InitCapture /\ [][NextCapture]_vars

\* --------------------------------------------------------------- SpecFull
\* More peers than slots: a resident process, which is not one of Procs and
\* never closes, holds the last slot and the maintainer runs; the peers of
\* Procs start their capture loops on what is left.
Resident == NPeers + 1

InitFull ==
    /\ InitShared
    /\ calls = 0
    /\ ocalls = 0
    /\ db = EmptyDb
    /\ bpc = "check"
    /\ cpc = [p \in Procs |-> "rdlock"]
    /\ cidx = [p \in Procs |-> 0]
    /\ cuid = [p \in Procs |-> ZeroUid]
    /\ index = [p \in Procs |-> -1]
    /\ lock = [i \in Slots |-> IF i < MAX_PROCESSES - 1 THEN LOCK_FREE ELSE LOCK_LOCK]
    /\ uid = [i \in Slots |-> IF i < MAX_PROCESSES - 1 THEN ZeroUid ELSE SelfUid(Resident)]

NextFull ==
    \/ \E p \in Procs : Capture(p)
    \/ \E p \in Procs : Close(p)
    \/ BrokerCheck
    \/ BrokerServe
    \/ BrokerClean

SpecFull == InitFull /\ [][NextFull]_vars

\* ------------------------------------------------------------- SpecBroker
\* Inputs of the client calls.
Prefix == "t"
K1 == <<Prefix, <<1>>>>
K2 == <<Prefix, <<2>>>>
BVals == {"x", "y"}

\* The creator holds slot 0 and has started the maintainer; the other peers
\* are processes that have not constructed their MDB yet.
InitBroker ==
    /\ InitShared
    /\ calls = MaxCalls
    /\ ocalls = 0
    /\ db = EmptyDb
    /\ bpc = "check"
    /\ cpc = [p \in Procs |-> IF p = Creator THEN "ready" ELSE "closed"]
    /\ cidx = [p \in Procs |-> 0]
    /\ cuid = [p \in Procs |-> ZeroUid]
    /\ index = [p \in Procs |-> IF p = Creator THEN 0 ELSE 0 - 1]
    /\ lock = [i \in Slots |-> IF i = 0 THEN LOCK_LOCK ELSE LOCK_FREE]
    /\ uid = [i \in Slots |-> IF i = 0 THEN SelfUid(Creator) ELSE ZeroUid]

BrokerStep ==
    \/ BrokerCheck
    \/ BrokerServe
    \/ BrokerReply
    \/ BrokerClean
    \/ BrokerTeardown

\* Peers attach, close and issue single-shot calls on one key.
NextBroker ==
    \/ \E p \in Procs : Attach(p)
    \/ \E p \in Procs : Close(p)
    \/ \E p \in Procs : \E k \in {K1, NonStrKey} : \E v \in BVals : Put(p, k, v)
    \/ \E p \in Procs : Delete(p, K1)
    \/ \E p \in Procs : Get(p, K1)
    \/ \E p \in Procs : Receive(p)
    \/ \E p \in Procs : Disconnected(p)
    \/ BrokerStep

SpecBroker == InitBroker /\ [][NextBroker]_vars

\* ------------------------------------------------- SpecIter and SpecBatch
\* Every peer holds a slot (peer p slot p - 1) and the maintainer runs.
InitAttached ==
    /\ InitShared
    /\ bpc = "check"
    /\ cpc = [p \in Procs |-> "ready"]
    /\ cidx = [p \in Procs |-> 0]
    /\ cuid = [p \in Procs |-> ZeroUid]
    /\ index = [p \in Procs |-> p - 1]
    /\ lock = [i \in Slots |-> IF i < NPeers THEN LOCK_LOCK ELSE LOCK_FREE]
    /\ uid = [i \in Slots |-> IF i < NPeers THEN SelfUid(i + 1) ELSE ZeroUid]

\* The store holds two keys under the prefix.
InitIter ==
    /\ InitAttached
    /\ calls = MaxIterCalls
    /\ ocalls = 0
    /\ db = DbPut(DbPut(EmptyDb, K1, "x"), K2, "y")

IterArgs == {<<Prefix, FALSE, NoSeek>>, <<Prefix, TRUE, <<2>>>>, <<NonStrKey[1], FALSE, NoSeek>>}

\* Peers iterate, write single keys and close.
NextIter ==
    \/ \E p \in Procs : \E a \in IterArgs : IterStart(p, a[1], a[2], a[3])
    \/ \E p \in Procs : IterNext(p)
    \/ \E p \in Procs : IterClose(p)
    \/ \E p \in Procs : Delete(p, K2)
    \/ \E p \in Procs : Close(p)
    \/ \E p \in Procs : Receive(p)
    \/ BrokerStep

SpecIter == InitIter /\ [][NextIter]_vars

InitBatch ==
    /\ InitAttached
    /\ calls = MaxBatchCalls
    /\ ocalls = 0
    /\ db = DbPut(EmptyDb, K1, "x")

\* Peers write in batches, read single keys and close.
NextBatch ==
    \/ \E p \in Procs : BatchEnter(p)
    \/ \E p \in Procs : \E k \in {K1, K2, NonStrKey} : BatchPut(p, k, "y")
    \/ \E p \in Procs : BatchDelete(p, K1)
    \/ \E p \in Procs : BatchExit(p)
    \/ \E p \in Procs : BatchError(p)
    \/ \E p \in Procs : \E k \in {K1, K2} : Get(p, k)
    \/ \E p \in Procs : Close(p)
    \/ \E p \in Procs : Receive(p)
    \/ BrokerStep

SpecBatch == InitBatch /\ [][NextBatch]_vars

\* ------------------------------------------------------------ SpecSession
\* Every peer holds a slot; single-shot calls, iterator steps and batch
\* steps of the peers, with keys the engine refuses among them, and close.
InitSession ==
    /\ InitAttached
    /\ calls = MaxSessionCalls
    /\ ocalls = 0
    /\ db = DbPut(EmptyDb, K1, "x")

NextSession ==
    \/ \E p \in Procs : Put(p, K2, "y")
    \/ \E p \in Procs : Delete(p, K1)
    \/ \E p \in Procs : \E k \in {K1, NonStrKey} : Get(p, k)
    \/ \E p \in Procs : IterStart(p, Prefix, FALSE, NoSeek)
    \/ \E p \in Procs : IterNext(p)
    \/ \E p \in Procs : IterClose(p)
    \/ \E p \in Procs : BatchEnter(p)
    \/ \E p \in Procs : \E k \in {K2, NonStrKey} : BatchPut(p, k, "y")
    \/ \E p \in Procs : BatchDelete(p, K1)
    \/ \E p \in Procs : BatchExit(p)
    \/ \E p \in Procs : BatchError(p)
    \/ \E p \in Procs : Close(p)
    \/ \E p \in Procs : Receive(p)
    \/ BrokerStep

SpecSession == InitSession /\ [][NextSession]_vars

\* ------------------------------------------------------------- SpecOrphan
\* The process that created the region (not one of Procs) has just closed
\* its MDB: slot 0 is CLEAN and the maintainer runs. The peers open the
\* region, run the capture loop and call while the maintainer cleans the
\* slot, finds no slot held and ends.
InitOrphan ==
    /\ InitShared
    /\ calls = MaxOrphanCalls
    /\ ocalls = 0
    /\ db = EmptyDb
    /\ bpc = "check"
    /\ cpc = [p \in Procs |-> "closed"]
    /\ cidx = [p \in Procs |-> 0]
    /\ cuid = [p \in Procs |-> ZeroUid]
    /\ index = [p \in Procs |-> 0 - 1]
    /\ lock = [i \in Slots |-> IF i = 0 THEN LOCK_CLEAN ELSE LOCK_FREE]
    /\ uid = [i \in Slots |-> IF i = 0 THEN SelfUid(Resident) ELSE ZeroUid]

NextOrphan ==
    \/ \E p \in Procs : Open(p)
    \/ \E p \in Procs : Capture(p)
    \/ \E p \in Procs : Put(p, K1, "x")
    \/ \E p \in Procs : Receive(p)
    \/ \E p \in Procs : Disconnected(p)
    \/ \E p \in Procs : CallDisconnected(p)
    \/ BrokerStep

SpecOrphan == InitOrphan /\ [][NextOrphan]_vars

\* The maintainer is a process of its own, and a peer inside a call runs
\* the loop of _wait_responce, which takes the answer or gives up as soon
\* as it can.
SpecOrphanFair ==
    /\ SpecOrphan
    /\ WF_vars(BrokerStep)
    /\ \A p \in Procs : WF_vars(Receive(p) \/ Disconnected(p))

\* -------------------------------------------------------------- SpecFrame
\* Every peer holds a slot and the maintainer runs; the store holds one
\* value of BLOCK_SIZE characters.
InitFrame ==
    /\ InitAttached
    /\ calls = MaxFrameCalls
    /\ ocalls = 0
    /\ db = DbPut(EmptyDb, K2, LargeVal)

FrameVals == {"x", FitVal, OverVal, RecVal}

\* Peers put values of every size, read them back and write raw blocks.
NextFrame ==
    \/ \E p \in Procs : \E v \in FrameVals : Put(p, K1, v)
    \/ \E p \in Procs : \E k \in {K1, K2} : Get(p, k)
    \/ \E p \in Procs : \E f \in RawFrames : RawRequest(p, f)
    \/ \E p \in Procs : Receive(p)
    \/ \E p \in Procs : Disconnected(p)
    \/ BrokerStep

SpecFrame == InitFrame /\ [][NextFrame]_vars

\* The maintainer process goes on whatever the peers do.
SpecFrameFair == SpecFrame /\ WF_vars(BrokerStep)

\* -------------------------------------------------------------- SpecClose
\* Every peer holds a slot and the maintainer runs; peers call, close,
\* call on the closed object and construct a new one.
InitClose ==
    /\ InitAttached
    /\ calls = MaxCloseCalls
    /\ ocalls = 0
    /\ db = EmptyDb

NextClose ==
    \/ \E p \in Procs : Put(p, K1, "x")
    \/ \E p \in Procs : Get(p, K1)
    \/ \E p \in Procs : Close(p)
    \/ \E p \in Procs : Attach(p)
    \/ \E p \in Procs : CallClosed(p)
    \/ \E p \in Procs : CallDisconnected(p)
    \/ \E p \in Procs : Receive(p)
    \/ \E p \in Procs : Disconnected(p)
    \/ BrokerStep

SpecClose == InitClose /\ [][NextClose]_vars

\* ------------------------------------------------------------ SpecReclaim
\* Peers open iterators and batches, close at any point of a call and
\* attach again.
InitReclaim ==
    /\ InitAttached
    /\ calls = MaxReclaimCalls
    /\ ocalls = 0
    /\ db = DbPut(EmptyDb, K1, "x")

NextReclaim ==
    \/ \E p \in Procs : IterStart(p, Prefix, FALSE, NoSeek)
    \/ \E p \in Procs : IterNext(p)
    \/ \E p \in Procs : IterClose(p)
    \/ \E p \in Procs : BatchEnter(p)
    \/ \E p \in Procs : BatchExit(p)
    \/ \E p \in Procs : Close(p)
    \/ \E p \in Procs : Attach(p)
    \/ \E p \in Procs : Receive(p)
    \/ \E p \in Procs : Disconnected(p)
    \/ BrokerStep

SpecReclaim == InitReclaim /\ [][NextReclaim]_vars

\* The maintainer is a process of its own, whose loop (lines 348-484) goes
\* on whatever the peers do.
SpecReclaimFair == SpecReclaim /\ WF_vars(BrokerStep)

\* ------------------------------------------------------------- SpecRegion
\* Peers attach, call and close; the maintainer ends when no slot is held
\* and unlinks the region; the next peer creates a new one.
NextRegion ==
    \/ \E p \in Procs : Create(p)
    \/ \E p \in Procs : Attach(p)
    \/ \E p \in Procs : Close(p)
    \/ \E p \in Procs : Put(p, K1, "x")
    \/ \E p \in Procs : Receive(p)
    \/ \E p \in Procs : Disconnected(p)
    \/ BrokerStep
    \/ BrokerExit

SpecRegion == InitBroker /\ [][NextRegion]_vars

\* ---------------------------------------------- SpecLexo and SpecSysLock
\* No process has constructed an MDB.
InitDetached ==
    /\ odb = EmptyDb
    /\ InitSlots
    /\ calls = 0
    /\ ocalls = 0
    /\ db = EmptyDb
    /\ bpc = "off"
    /\ cpc = [p \in Procs |-> "closed"]
    /\ cidx = [p \in Procs |-> 0]
    /\ cuid = [p \in Procs |-> ZeroUid]
    /\ index = [p \in Procs |-> -1]
    /\ lock = [i \in Slots |-> LOCK_FREE]
    /\ uid = [i \in Slots |-> ZeroUid]

\* Every width, every first operand 0..MaxLexo and every second operand
\* -MaxLexo..MaxLexo.
InitLexo ==
    /\ InitDetached
    /\ sys = NoSys
    /\ \E w \in 1..MaxWidth : \E a \in 0..MaxLexo : \E k \in (0 - MaxLexo)..MaxLexo :
         lex = [NoLex EXCEPT !.w = w, !.a = a, !.k = k]

NextLexo ==
    \/ LexoNew
    \/ LexoStrs
    \/ LexoPlus
    \/ LexoMinus

SpecLexo == InitLexo /\ [][NextLexo]_vars

InitSysLock ==
    /\ InitDetached
    /\ lex = NoLex
    /\ sys = [NoSys EXCEPT !.n = MaxSysCalls]

NextSysLock ==
    \/ \E p \in Procs : SysAcquire(p)
    \/ \E p \in Procs : SysCreate(p)
    \/ \E p \in Procs : SysRelease(p)
    \/ \E p \in Procs : SysUnlink(p)

SpecSysLock == InitSysLock /\ [][NextSysLock]_vars

\* ------------------------------------------------------------ SpecThreads
\* One peer holds slot 0 and the maintainer runs; the elements of Procs are
\* the threads of that peer, calling the client API on the one MDB object:
\* they share self.index and the slot, and each has its own position in
\* its call. put, delete, get (lines 557-590) take no mutex.
InitThreads ==
    /\ InitShared
    /\ calls = MaxThreadCalls
    /\ ocalls = 0
    /\ db = DbPut(EmptyDb, K1, "x")
    /\ bpc = "check"
    /\ cpc = [p \in Procs |-> "ready"]
    /\ cidx = [p \in Procs |-> 0]
    /\ cuid = [p \in Procs |-> ZeroUid]
    /\ index = [p \in Procs |-> 0]
    /\ lock = [i \in Slots |-> IF i = 0 THEN LOCK_LOCK ELSE LOCK_FREE]
    /\ uid = [i \in Slots |-> IF i = 0 THEN SelfUid(Creator) ELSE ZeroUid]

NextThreads ==
    \/ \E p \in Procs : Put(p, K1, "y")
    \/ \E p \in Procs : Delete(p, K1)
    \/ \E p \in Procs : Get(p, K1)
    \/ \E p \in Procs : Receive(p)
    \/ BrokerCheck
    \/ BrokerServe
    \/ BrokerReply
    \/ BrokerClean

SpecThreads == InitThreads /\ [][NextThreads]_vars

\* C1. Slot exclusivity: no two peers consider themselves the owner of the
\* same slot (self.index) at the same time.
C1_SlotExclusive ==
    \A p \in Procs : \A q \in Procs :
        (p # q /\ cpc[p] = "ready" /\ cpc[q] = "ready") => index[p] # index[q]

\* ------------------------------------------------ the maintainer's steps
\* The maintainer is about to serve the request m of slot i.
Serving(i, m) ==
    /\ bpc = "serve" /\ bi = i /\ tasks[i] = STATE_REQUEST
    /\ frame[i].kind = "request" /\ frame[i].method = m
\* The step that serves it.
ServeStep(i, m) == Serving(i, m) /\ bpc' = "reply"
\* The step that handles LOCK_CLEAN on slot i.
CleanStep(i) == bpc = "clean" /\ bi = i /\ lock[i] = LOCK_CLEAN /\ bpc' # "clean"
\* The finally block.
TeardownStep == bpc = "teardown" /\ bpc' = "stopped"

\* The steps that cancel the batch of slot i.
CancelStep(i) ==
    \/ ServeStep(i, "batch_error")
    \/ (ServeStep(i, "batch_put") \/ ServeStep(i, "batch_delete")) /\ ~IsStr(frame[i].key)
    \/ CleanStep(i)
    \/ TeardownStep

\* ---------------------------------------------------------------- SpecOrm
\* Every peer holds a slot, the maintainer runs, the table is empty.
InitOrm ==
    /\ InitAttached
    /\ calls = 0
    /\ ocalls = MaxOrmCalls
    /\ db = EmptyDb

OrmData == {[role |-> "a", nick |-> "n"], NoData}
OrmUpdates == {[role |-> "b", nick |-> "n"]}
OrmSelects ==
    {SelArgs(TRUE, TRUE, <<"role=a">>, NoId, MaxSize),
     SelArgs(TRUE, TRUE, <<"role=b">>, NoId, MaxSize),
     SelArgs(FALSE, FALSE, <<"items">>, NoId, MaxSize)}

NextOrm ==
    \/ \E p \in Procs : \E data \in OrmData : InsertLexocount(p, data)
    \/ \E p \in Procs : InsertWcount(p)
    \/ \E p \in Procs : InsertCommit(p)
    \/ \E p \in Procs : \E id \in 0..MaxId : RemoveWcount(p, id)
    \/ \E p \in Procs : RemoveRow(p)
    \/ \E p \in Procs : RemoveCommit(p)
    \/ \E p \in Procs : \E id \in 0..MaxId : \E data \in OrmUpdates : UpdateWcount(p, id, data)
    \/ \E p \in Procs : UpdateRow(p)
    \/ \E p \in Procs : UpdateIndex(p)
    \/ \E p \in Procs : UpdateCommit(p)
    \/ \E p \in Procs : \E a \in OrmSelects : Select(p, a)
    \/ \E p \in Procs : \E id \in 0..MaxId : GetRow(p, id)

SpecOrm == InitOrm /\ [][NextOrm]_vars

\* C2. Batch cancellation atomicity: a step that cancels the open batch of a
\* slot (batch_error served, a batch_put/batch_delete failing in the
\* maintainer, the slot's lock found CLEAN, the maintainer's teardown) leaves
\* the engine's content as it is and drops the buffered operations; the
\* content changes only when a batch_exit (or a single-shot put/delete) is
\* served, and a get answers with the content, so nothing a cancelled batch
\* held is visible to a later reader.
C2_CancelledBatchInvisible ==
    [][\A i \in Slots :
        /\ (batches[i].st = "open" /\ CancelStep(i))
             => (db' = db /\ batches'[i].st # "open" /\ batches'[i].ops = <<>>)
        /\ batches'[i].st # "open" => batches'[i].ops = <<>>
        /\ db' # db => \E j \in Slots : \E m \in {"batch_exit", "put", "delete"} : ServeStep(j, m)
        /\ (ServeStep(i, "get") /\ IsStr(frame[i].key))
             => (db' = db /\ reply' = Result(<<"val", DbGet(db, frame[i].key)>>))
      ]_vars

\* A batch_error has been served on a slot whose batch held acknowledged
\* operations: the batch is gone.
C2_Witness ==
    \E p \in Procs :
        /\ cpc[p] = "ready" /\ ppc[p] = "wait" /\ cur[p].m = "batch_error"
        /\ wbs[p].ops # <<>>
        /\ bpc = "reply" /\ bi = index[p]
        /\ batches[bi] = NoBatch /\ reply = Result(RTrue)

\* C3. Batch commit is all-or-nothing: serving batch_exit on an open batch
\* writes all its buffered operations in one step, the buffer being exactly
\* the operations acknowledged to the peer; serving batch_enter, batch_put or
\* batch_delete leaves the content unchanged, so no state shows part of a
\* batch; after batch_exit or batch_error the slot's batch is None and a
\* batch_enter on it succeeds.
C3_BatchAllOrNothing ==
    [][\A i \in Slots :
        /\ (ServeStep(i, "batch_exit") /\ batches[i].st = "open")
             => /\ db' = ApplyBatch(db, batches[i].ops)
                /\ reply' = Result(RTrue)
        /\ (ServeStep(i, "batch_exit") /\ batches[i].st = "dead") => db' = db
        /\ \A m \in {"batch_enter", "batch_put", "batch_delete", "batch_error"} :
               ServeStep(i, m) => db' = db
        /\ (ServeStep(i, "batch_put") /\ batches[i].st = "open" /\ IsStr(frame[i].key))
             => batches'[i] = OpenBatch(Append(batches[i].ops,
                                               <<"put", frame[i].key, frame[i].val>>))
        /\ (ServeStep(i, "batch_delete") /\ batches[i].st = "open" /\ IsStr(frame[i].key))
             => batches'[i] = OpenBatch(Append(batches[i].ops,
                                               <<"delete", frame[i].key, NoneV>>))
        /\ ((ServeStep(i, "batch_exit") \/ ServeStep(i, "batch_error"))
             /\ batches[i].st # "none") => batches'[i] = NoBatch
        /\ (ServeStep(i, "batch_enter") /\ batches[i] = NoBatch)
             => (batches'[i] = OpenBatch(<<>>) /\ reply' = Result(RTrue))
        /\ \A p \in Procs :
               (/\ cpc[p] = "ready" /\ index[p] = i /\ ppc[p] = "user"
                /\ wbs[p].in /\ batches[i].st = "open")
               => batches[i].ops = wbs[p].ops
      ]_vars

\* A batch_exit has been served for a scope with two acknowledged
\* operations (a delete of the stored key and a put of another): the content
\* is the result of both.
C3_Witness ==
    \E p \in Procs :
        /\ cpc[p] = "ready" /\ ppc[p] = "wait" /\ cur[p].m = "batch_exit"
        /\ Len(wbs[p].ops) = 2
        /\ bpc = "reply" /\ bi = index[p] /\ reply = Result(RTrue)
        /\ db = ApplyBatch(DbPut(EmptyDb, K1, "x"), wbs[p].ops)
        /\ K1 \notin DOMAIN db /\ DbGet(db, K2) = "y"

\* C4. Request/response ordering: a get(key) that returns gives the value
\* the engine held for the key when the request was served (the value of
\* the latest put, or None after a delete or before any put), so it is the
\* value of the last put that returned or of a later put/delete: the reply a
\* peer waiting in get is about to read is a value reply carrying None or a
\* value some put was given.
C4_GetReturnsWrittenValue ==
    \A p \in Procs :
        (/\ cpc[p] = "ready" /\ ppc[p] = "wait" /\ cur[p].m = "get"
         /\ lock[index[p]] # LOCK_FREE
         /\ state[index[p]] = STATE_RESPONCE)
        => /\ frame[index[p]].kind = "result"
           /\ frame[index[p]].result[1] = "val"
           /\ frame[index[p]].result[2] \in BVals \cup {NoneV}

\* C5. Iterator isolation per slot: an 'iterator' request on a slot whose
\* iterators[i] is set is answered 'Nesting iterators' and leaves it as it
\* is; 'close' is answered True whatever iterators[i] is and leaves it None;
\* a 'next' answered 'StopIteration' leaves it None; an 'iterator' request
\* on a slot whose iterators[i] is None succeeds; iterators[i] changes only
\* when a request of slot i is served or the slot is cleaned.
C5_IteratorIsolation ==
    [][\A i \in Slots :
        /\ (ServeStep(i, "iterator") /\ iterators[i].st # "none")
             => (reply' = Error("Nesting iterators") /\ iterators'[i] = iterators[i])
        /\ (ServeStep(i, "iterator") /\ iterators[i].st = "none")
             => /\ reply' = Result(RTrue)
                /\ iterators'[i] = NewIter(frame[i].prefix, frame[i].reverse, frame[i].seek)
        /\ ServeStep(i, "close") => (reply' = Result(RTrue) /\ iterators'[i] = NoIter)
        /\ (ServeStep(i, "next") /\ reply' = Result(RStop)) => iterators'[i] = NoIter
        /\ iterators'[i] # iterators[i]
             => \/ \E m \in {"iterator", "next", "close"} : ServeStep(i, m)
                \/ (CleanStep(i) /\ iterators'[i] = NoIter)
                \/ (TeardownStep /\ iterators'[i] = NoIter)
      ]_vars

\* A second 'iterator' request has been refused on a slot whose iterator is
\* started and still has pairs to yield.
C5_Witness ==
    /\ bpc = "reply"
    /\ reply = Error("Nesting iterators")
    /\ iterators[bi].st = "run" /\ iterators[bi].rest # <<>>

\* ------------------------------------------------------------- ORM claims
RowKeys(d) == {k \in DOMAIN d : k[1] = RowPrefix}
OrmQuiet == \A p \in Procs : orm[p].op = "idle"
InsertReturns(p) == InsertCommit(p)
RemoveReturns(p) == RemoveCommit(p)
UpdateReturns(p) == UpdateCommit(p)
Selected(d, ckey) == SelectCompute(d, SelArgs(TRUE, TRUE, <<ckey>>, NoId, MaxSize)).result
Ids(rows) == {rows[j].id : j \in DOMAIN rows}

\* C6. Concurrent inserts: once the peers have run their insert calls on
\* table T, interleaved in any way, and no call is in progress, wcount(T) is
\* the number of inserts and the table holds that many rows, with the ids
\* 0 .. total-1.
C6_ConcurrentInserts ==
    (OrmQuiet /\ done.oth = 0)
    => /\ Wcount(db) = done.ins
       /\ RowKeys(db) = {RowKey(LexoStr(n)) : n \in 0..(done.ins - 1)}

\* C7. ORM index discipline: when insert(r) returns, for every predicate of
\* the model and for 'items' the key Ts.<p(r)>.<r.id> exists with the
\* predicate's source as its value, and the stored row's ckeys are exactly
\* those ckeys; when remove(r) returns, no index key of the row and no row
\* key T.<r.id> is left.
C7_IndexDiscipline ==
    [][\A p \in Procs :
         /\ InsertReturns(p)
            => /\ \A src \in ModelIkeys :
                    /\ IndexKey(EvalIkey(src, orm[p].data), orm[p].lexo) \in DOMAIN db'
                    /\ db'[IndexKey(EvalIkey(src, orm[p].data), orm[p].lexo)] = src
               /\ RowKey(orm[p].lexo) \in DOMAIN db'
               /\ Range(db'[RowKey(orm[p].lexo)].ckeys)
                  = {EvalIkey(src, orm[p].data) : src \in ModelIkeys}
         /\ RemoveReturns(p)
            => \A k \in DOMAIN db' : k[2] # orm[p].lexo]_vars

\* C8. Update re-indexes atomically: when update(r) returns for a stored
\* row, the index entries of the old ckeys that no longer apply are gone, an
\* entry exists for the ckey of every predicate on the new data, the row has
\* the same id, wcount has grown, and select by a ckey gives the record if
\* and only if the ckey applies to the new data.
C8_UpdateReindexes ==
    [][\A p \in Procs :
         UpdateReturns(p)
         => LET lexo == orm[p].lexo
                data == MergeData(orm[p].old, orm[p].data)
                new == {EvalIkey(src, data) : src \in ModelIkeys}
            IN /\ \A c \in Range(orm[p].old.ckeys) \ new : IndexKey(c, lexo) \notin DOMAIN db'
               /\ \A c \in new : IndexKey(c, lexo) \in DOMAIN db'
               /\ RowKey(lexo) \in DOMAIN db' /\ db'[RowKey(lexo)].id = lexo
               /\ Wcount(db') > Wcount(db)
               /\ \A c \in new \cup Range(orm[p].old.ckeys) :
                    (lexo \in Ids(Selected(db', c))) <=> (c \in new)]_vars

\* C9. Cache invalidation: a select on T returns what the store gives at
\* the time of the call, whichever peer made the writes before it; it never
\* returns a list computed before a write that has completed.
C9_SelectRecomputes ==
    [][\A p \in Procs : \A a \in OrmSelects :
         Select(p, a) => ret'[p].rows = SelectCompute(db, a).result]_vars

\* C10. getrow(Model, id), computed from the store, returns the row T.<id>
\* whenever it exists, whatever other ids the table holds, and None when it
\* does not exist.
C10_GetRowById ==
    [][\A p \in Procs : \A id \in 0..MaxId :
         (GetRow(p, id) /\ GetRowArgs(id) \notin DOMAIN cache[p])
         => ret'[p].rows = IF RowKey(LexoStr(id)) \in DOMAIN db
                           THEN <<db[RowKey(LexoStr(id))]>>
                           ELSE <<>>]_vars

\* ------------------------------------------------------------- SpecOrmSeq
\* One peer, the creator, makes ORM calls one after the other on a table
\* that starts empty: no two calls overlap.
InitOrmSeq ==
    /\ InitAttached
    /\ calls = 0
    /\ ocalls = MaxSeqCalls
    /\ db = EmptyDb

\* The selects of SpecOrmSeq: two ckeys without seek and limit in either
\* mode, and one ckey with a limit or with a seek.
SeqSelects ==
    {SelArgs(r, i, <<"role=a", "nick=n">>, NoId, MaxSize) : r \in BOOLEAN, i \in BOOLEAN}
    \cup {SelArgs(r, TRUE, <<"items">>, NoId, 2) : r \in BOOLEAN}
    \cup {SelArgs(r, TRUE, <<"items">>, k, MaxSize) :
            r \in BOOLEAN, k \in {NoId} \cup 0..(MaxSeqId - 1)}

NextOrmSeq ==
    \/ \E data \in OrmData : InsertLexocount(Creator, data)
    \/ InsertWcount(Creator)
    \/ InsertCommit(Creator)
    \/ \E id \in {BadId} \cup 0..(MaxSeqId - 1) : RemoveWcount(Creator, id)
    \/ RemoveRow(Creator)
    \/ RemoveCommit(Creator)
    \/ \E id \in {BadId} \cup 0..(MaxSeqId - 1) : \E data \in OrmUpdates : UpdateWcount(Creator, id, data)
    \/ UpdateRow(Creator)
    \/ UpdateIndex(Creator)
    \/ UpdateCommit(Creator)
    \/ \E a \in SeqSelects : Select(Creator, a)

SpecOrmSeq == InitOrmSeq /\ [][NextOrmSeq]_vars

\* -------------------------------------------------------------- SpecCache
\* One peer inserts into T, selects from T and inserts into the table U.
InitCache ==
    /\ InitAttached
    /\ calls = 0
    /\ ocalls = MaxCacheCalls
    /\ db = EmptyDb

CacheSelects ==
    {SelArgs(TRUE, TRUE, <<"items">>, NoId, MaxSize),
     SelArgs(FALSE, FALSE, <<"role=a", "Ellipsis">>, NoId, MaxSize),
     SelArgs(FALSE, TRUE, <<"items">>, 0, 1)}

NextCache ==
    \/ \E data \in OrmData : InsertLexocount(Creator, data)
    \/ InsertWcount(Creator)
    \/ InsertCommit(Creator)
    \/ \E a \in CacheSelects : Select(Creator, a)
    \/ InsertOther(Creator)

SpecCache == InitCache /\ [][NextCache]_vars

\* ------------------------------------------------------------- SpecStores
\* One process with two MDBOrm objects on two paths whose stores both hold
\* the table T: inserts and selects through either of them, one call after
\* the other.
InitStores ==
    /\ InitAttached
    /\ calls = 0
    /\ ocalls = MaxStoreCalls
    /\ db = EmptyDb

StoreSelects ==
    {SelArgs(TRUE, TRUE, <<"items">>, NoId, MaxSize),
     SelArgs(FALSE, FALSE, <<"role=a", "Ellipsis">>, NoId, MaxSize)}

NextStores ==
    \/ \E data \in OrmData : InsertLexocount(Creator, data)
    \/ InsertWcount(Creator)
    \/ InsertCommit(Creator)
    \/ \E a \in StoreSelects : Select(Creator, a)
    \/ \E data \in OrmData : OtherPathInsert(Creator, data)
    \/ \E a \in StoreSelects : OtherPathSelect(Creator, a)

SpecStores == InitStores /\ [][NextStores]_vars

\* The pagination loop of the docstring of _select: select with limit=L,
\* then again with seek = the last id of the page + 1 (reverse=False) or - 1
\* (reverse=True), until a page is empty. No id lies below 0 (LexoInt
\* raises ValueError on the seek -1), so a reverse page that ends with id 0
\* is the last one.
RECURSIVE Paginate(_, _, _, _)
Paginate(d, a, seek, acc) ==
    LET page == SelectCompute(d, [a EXCEPT !.seek = seek]).result
    IN IF page = <<>> THEN acc
       ELSE LET last == LexoVal(page[Len(page)].id)
                nxt == IF a.reverse THEN last - 1 ELSE last + 1
            IN IF nxt < 0 THEN acc \o page
               ELSE Paginate(d, a, nxt, acc \o page)

PageArgs ==
    {SelArgs(r, i, c, NoId, MaxSize) :
        r \in BOOLEAN, i \in BOOLEAN, c \in {<<"items">>, <<"role=a", "Ellipsis">>}}

\* C11. Pagination: between calls, for every list of ckeys, mode and
\* direction and every page size L, the pages of select with limit=L and
\* seek advanced past the last id returned, up to the first empty page,
\* concatenate to the rows of the one unlimited select, in the same order.
C11_Pagination ==
    OrmQuiet =>
        \A a \in PageArgs : \A L \in 1..MaxPage :
            Paginate(db, [a EXCEPT !.limit = L], NoId, <<>>) = SelectCompute(db, a).result

\* A step in which the select of peer p with the arguments a returns.
SelectReturns(p, a) ==
    /\ ocalls' = ocalls - 1
    /\ ret'[p].op = "select" /\ ret'[p].args = a
    /\ Select(p, a)

PairSelects == {a \in SeqSelects : Len(a.ckeys) = 2}
RowsHolding(d, ckeys) ==
    {d[k] : k \in {x \in RowKeys(d) : Range(ckeys) \subseteq Range(d[x].ckeys)}}
RowsIndexed(d, ckeys) ==
    {d[k] : k \in {x \in RowKeys(d) : \E c \in Range(ckeys) : IndexKey(c, x[2]) \in DOMAIN d}}

\* C12. Select set algebra: for ckeys a, b, select(mode=inter) returns
\* exactly the rows whose stored ckeys hold both, select(mode=union) exactly
\* the rows indexed under a or b, every inter row is a union row, and no id
\* is returned twice.
C12_SelectSetAlgebra ==
    [][\A p \in Procs : \A a \in PairSelects :
         SelectReturns(p, a)
         => LET rows == ret'[p].rows
            IN /\ \A i \in DOMAIN rows : \A j \in DOMAIN rows : i # j => rows[i].id # rows[j].id
               /\ Range(rows) = IF a.inter THEN RowsHolding(db, a.ckeys)
                                ELSE RowsIndexed(db, a.ckeys)
               /\ a.inter => Range(rows) \subseteq
                                Range(SelectCompute(db, [a EXCEPT !.inter = FALSE]).result)]_vars

\* An inter select of two ckeys has returned one row of a table that holds
\* a second row without both ckeys, and nothing was written since.
C12_Witness ==
    /\ ret[Creator].op = "select"
    /\ ret[Creator].args \in PairSelects
    /\ ret[Creator].args.inter
    /\ ret[Creator].args \in DOMAIN cache[Creator]
    /\ Len(ret[Creator].rows) = 1
    /\ \E k \in RowKeys(db) : db[k] \notin Range(ret[Creator].rows)

ItemSelects == {a \in SeqSelects : a.ckeys = <<"items">>}
\* The ids of the rows indexed under ckey that a seek leaves in reach.
Eligible(d, ckey, a) ==
    {n \in 0..MaxSeqCalls :
        /\ IndexKey(ckey, LexoStr(n)) \in DOMAIN d
        /\ RowKey(LexoStr(n)) \in DOMAIN d
        /\ a.seek # NoId => IF a.reverse THEN n <= a.seek ELSE n >= a.seek}
IdSeq(rows) == [j \in DOMAIN rows |-> LexoVal(rows[j].id)]

SeekZeroReturned ==
    /\ ret[Creator].op = "select"
    /\ ret[Creator].args = SelArgs(TRUE, TRUE, <<"items">>, 0, MaxSize)
    /\ {k[2] : k \in RowKeys(db)} = {LexoStr(0), LexoStr(1), LexoStr(2)}
    /\ IdSeq(ret[Creator].rows) = <<0>>

\* C14. remove is idempotent: a remove call whose row is gone (it was
\* removed before, or never stored) writes nothing, leaves wcount and the
\* select cache as they are and raises nothing; wcount is incremented only by
\* the call that deletes the row; a remove with an id that does not parse is
\* a no-op.
C14_RemoveIdempotent ==
    [][\A p \in Procs :
         /\ (orm[p].op = "remove" /\ RowKey(orm[p].lexo) \notin DOMAIN db /\ orm' # orm)
            => (db' = db /\ cache' = cache /\ ret' = ret /\ orm'[p] = OrmIdle)
         /\ RemoveCommit(p)
            => /\ RowKey(orm[p].lexo) \in DOMAIN db
               /\ RowKey(orm[p].lexo) \notin DOMAIN db'
               /\ Wcount(db') = Wcount(db) + 1
         /\ RemoveWcount(p, BadId)
            => (db' = db /\ cache' = cache /\ ret' = ret /\ orm'[p] = OrmIdle)]_vars

\* The second remove of id 0 is under way: the table was filled by one
\* insert and emptied by the first remove (wcount 2), and the row is gone.
C14_Witness ==
    /\ orm[Creator].op = "remove" /\ orm[Creator].pc = "row"
    /\ orm[Creator].lexo = LexoStr(0)
    /\ RowKeys(db) = {}
    /\ Wcount(db) = 2

\* C15. update error outcomes leave the store unchanged: an update whose id
\* does not parse raises ReferenceError, an update of an id without a stored
\* row raises LookupError, and neither writes a row, an index entry or
\* wcount, nor drops the select cache.
C15_UpdateErrors ==
    [][\A p \in Procs :
         /\ (\E data \in OrmUpdates : UpdateWcount(p, BadId, data))
            => /\ ret'[p] = Raised("ReferenceError")
               /\ db' = db /\ cache' = cache /\ orm'[p] = OrmIdle
         /\ (orm[p].op = "update" /\ RowKey(orm[p].lexo) \notin DOMAIN db /\ orm' # orm)
            => /\ ret'[p] = Raised("LookupError")
               /\ db' = db /\ cache' = cache /\ orm'[p] = OrmIdle]_vars

\* An update of a missing id has raised LookupError on a table that holds
\* a row, and the select cache filled before it is still there.
C15_Witness ==
    /\ ret[Creator].op = "LookupError"
    /\ OrmQuiet
    /\ RowKeys(db) # {}
    /\ cache[Creator] # EmptyCache

\* An update with an id that does not parse has raised ReferenceError.
BadIdRaised ==
    /\ ret[Creator].op = "ReferenceError"
    /\ RowKeys(db) # {}
    /\ cache[Creator] # EmptyCache

\* A step in which a write call of peer p commits its write batch.
WriteCommits(p) == InsertCommit(p) \/ RemoveCommit(p) \/ UpdateCommit(p)

\* C16. wcount is a monotone change token: over every interleaving of the
\* writes of the peers, the value stored at T#wcount never decreases, and
\* every insert, update or effective remove that commits leaves it strictly
\* greater than it was.
C16_WcountMonotone ==
    [][/\ Wcount(db') >= Wcount(db)
       /\ \A p \in Procs : WriteCommits(p) => Wcount(db') > Wcount(db)]_vars

\* The weaker half of C16 alone: wcount never decreases.
WcountNeverDecreases == [][Wcount(db') >= Wcount(db)]_vars

\* C17. Row ids are monotonically allocated: the id an insert writes its
\* record under is the largest existing row id + 1 (0 on an empty table) and
\* is greater than every id allocated on the table before, over any sequence
\* of inserts and removes.
C17_IdsMonotone ==
    [][\A p \in Procs :
         InsertCommit(p)
         => /\ orm[p].lexo = Lexocount(db)
            /\ LexoVal(orm[p].lexo) > done.top]_vars

\* The first half of C17 alone: for calls made one after the other, the id
\* of an insert is the largest existing row id + 1, or 0 on an empty table.
InsertTakesNextId ==
    [][\A p \in Procs :
         InsertCommit(p)
         => LexoVal(orm[p].lexo) =
               IF RowKeys(db) = {} THEN 0
               ELSE 1 + CHOOSE n \in 0..MaxSeqCalls :
                          /\ RowKey(LexoStr(n)) \in DOMAIN db
                          /\ \A m \in (n + 1)..MaxSeqCalls : RowKey(LexoStr(m)) \notin DOMAIN db]_vars

\* ----------------------------------------------------- the frame claims
\* The frame the maintainer is about to decode holds no request it can run.
Malformed(f) ==
    \/ f.kind # "request"
    \/ f.method \notin {"put", "delete", "get", "iterator", "next", "close", "batch_enter",
                        "batch_put", "batch_delete", "batch_exit", "batch_error"}

\* C18. The broker never crashes on a request: whatever the frame of a slot
\* in state REQUEST holds, the maintainer prepares a reply (an 'error' reply
\* for a frame that is no runnable request), writes it to the slot, sets
\* state[i] = RESPONSE and goes on with its loop.
C18_BrokerNeverCrashes ==
    [][/\ (BrokerServe /\ tasks[bi] = STATE_REQUEST)
          => /\ bpc' = "reply"
             /\ Malformed(frame[bi]) => reply'.kind = "error"
       /\ BrokerReply
          => /\ frame'[bi] = reply
             /\ frame'[bi].kind \in {"result", "error"}
             /\ state'[bi] = STATE_RESPONCE
             /\ bpc' = "clean"]_vars

\* C19. An error reply always fits the frame: the 'error' reply the
\* maintainer is about to write has at most BLOCK_SIZE - 1 bytes of text,
\* whatever exception text it was made from.
C19_ErrorReplyFits ==
    (bpc = "reply" /\ reply.kind = "error") => FrameLen(reply) <= BLOCK_SIZE - 1

\* A result that is too large to encode is answered by an 'error' reply
\* with the empty text.
LargeResultAnswered ==
    [][(BrokerServe /\ tasks[bi] = STATE_REQUEST /\ frame[bi].kind = "request"
        /\ frame[bi].method = "get" /\ frame[bi].key = K2)
       => reply' = Error("")]_vars

\* C20. BufferError is local and free of side effects: a put whose request
\* text exceeds BLOCK_SIZE - 1 bytes raises BufferError and leaves every
\* frame, state byte and lock byte and the maintainer as they are; a request
\* of exactly BLOCK_SIZE - 1 bytes is written and the slot set to REQUEST.
C20_BufferErrorLocal ==
    [][\A p \in Procs : \A v \in FrameVals :
         Put(p, K1, v)
         => IF FrameLen(Req("put", K1, v)) > BLOCK_SIZE - 1
            THEN /\ ret'[p] = Raised("BufferError")
                 /\ frame' = frame /\ state' = state /\ lock' = lock
                 /\ ppc'[p] = "user"
                 /\ UNCHANGED brkVars
            ELSE /\ frame'[index[p]] = Decoded(Req("put", K1, v))
                 /\ state'[index[p]] = STATE_REQUEST
                 /\ ret' = ret]_vars

\* The put of peer 1 has raised BufferError, its slot is IDLE and its block
\* untouched, while the request of BLOCK_SIZE - 1 bytes of peer 2 is in its
\* slot in state REQUEST.
C20_Witness ==
    /\ ret[1].op = "BufferError"
    /\ state[index[1]] = STATE_IDLE /\ frame[index[1]] = EmptyFrame
    /\ state[index[2]] = STATE_REQUEST
    /\ frame[index[2]] = Req("put", K1, FitVal)
    /\ FrameLen(frame[index[2]]) = BLOCK_SIZE - 1

\* ------------------------------------------------- the disconnect claims
\* C21. Disconnected: a call of the client API made when the peer's lock
\* byte is not HELD (the peer has closed, or the maintainer has cleared the
\* byte) fails with ConnectionError and writes neither the frame nor the
\* state byte of any slot.
C21_Disconnected ==
    [][\A p \in Procs :
         (CallClosed(p) \/ CallDisconnected(p))
         => /\ ret'[p] = Raised("ConnectionError")
            /\ frame' = frame /\ state' = state]_vars

\* The half of C21 that holds: a call made when the lock byte is False
\* raises ConnectionError, and a call waiting for its reply when the byte
\* is False can only go on by giving up.
FreeLockDisconnects ==
    [][\A p \in Procs :
         /\ CallDisconnected(p)
            => (ret'[p] = Raised("ConnectionError") /\ frame' = frame /\ state' = state)
         /\ (cpc[p] = "ready" /\ ppc[p] # "user" /\ lock[index[p]] = LOCK_FREE
             /\ ppc'[p] # ppc[p] /\ cpc'[p] = "ready")
            => (ppc'[p] = "user" /\ frame' = frame /\ state' = state)]_vars

\* C22. Intra-peer serialization: when two threads of one peer call the
\* client API on the same MDB object, no thread writes its request into the
\* slot while the request of another thread is outstanding, and the reply a
\* thread reads is a reply to the request it sent.
C22_ThreadsSerialized ==
    /\ \A p \in Procs : \A q \in Procs :
         (p # q /\ index[p] = index[q]) => ~(ppc[p] = "wait" /\ ppc[q] = "wait")
    /\ \A p \in Procs :
         (ppc[p] = "wait" /\ state[index[p]] = STATE_RESPONCE)
         => frame[index[p]].kind = (IF cur[p].m = "get" /\ ~IsStr(cur[p].key) THEN "error"
                                    ELSE "result")
            /\ (cur[p].m = "get") = (frame[index[p]].result[1] = "val")

\* A thread whose get is outstanding finds the reply True of another
\* thread's put or delete in the slot.
WrongReplyRead ==
    \E p \in Procs :
        /\ ppc[p] = "wait" /\ cur[p].m = "get"
        /\ state[index[p]] = STATE_RESPONCE
        /\ frame[index[p]] = Result(RTrue)

\* The generator of p ends in this step: its 'next' is answered by
\* 'StopIteration' or by an error.
GeneratorEnds(p) ==
    /\ Receive(p)
    /\ cur[p].m = "next"
    /\ \/ frame[index[p]].kind = "error"
       \/ frame[index[p]] = Result(RStop)

\* C23. Client iterator always releases its session: a started iterator
\* that ends by exhaustion or by an error reply to 'next' goes on to its
\* 'close' request, which is the next thing the peer does while it holds
\* its slot; the same request ends an iterator the caller closes early; and
\* when the reply to 'close' is read the maintainer holds no iterator for
\* the slot and its state is IDLE.
C23_IteratorReleases ==
    [][\A p \in Procs :
         /\ GeneratorEnds(p) => ppc'[p] = "gclose"
         /\ (/\ ppc[p] = "gclose" /\ ppc'[p] # "gclose"
             /\ cpc'[p] = "ready" /\ lock[index[p]] # LOCK_FREE)
            => /\ cur'[p].m = "close"
               /\ state'[index[p]] = STATE_REQUEST
               /\ frame'[index[p]].method = "close"
         /\ (Receive(p) /\ cur[p].m = "close")
            => /\ iterators'[index[p]] = NoIter
               /\ state'[index[p]] = STATE_IDLE
               /\ git'[p] = "none"]_vars

\* The reply to the 'close' of a started iterator is in the slot, and the
\* iterator the maintainer held is gone.
C23_Witness ==
    \E p \in Procs :
        /\ cpc[p] = "ready" /\ ppc[p] = "wait" /\ cur[p].m = "close"
        /\ git[p] = "open"
        /\ state[index[p]] = STATE_RESPONCE
        /\ frame[index[p]] = Result(RTrue)
        /\ iterators[index[p]] = NoIter

\* C24. No free slot means waiting: a peer that finds every slot taken
\* keeps rescanning and never fails; with more peers than slots the ones
\* without a slot stay in the capture loop.
C24_FullMeansWaiting ==
    \A p \in Procs : cpc[p] # "exhausted"

\* A slot marked CLEAN while the maintainer runs is set FREE by it.
CleanLeadsToFree ==
    \A i \in Slots : (lock[i] = LOCK_CLEAN /\ bpc # "stopped") ~> (lock[i] = LOCK_FREE)

\* When the maintainer sets a CLEAN slot FREE it holds no iterator and no
\* batch for it any more.
FreedWithoutSessions ==
    [][\A i \in Slots :
         (lock[i] = LOCK_CLEAN /\ lock'[i] = LOCK_FREE)
         => (iterators'[i] = NoIter /\ batches'[i] = NoBatch)]_vars

\* A peer that has no iterator (no batch) of its own has its 'iterator'
\* ('batch_enter') request accepted.
OwnSessionOpens ==
    [][\A p \in Procs :
         /\ (Receive(p) /\ cur[p].m = "iterator" /\ git[p] = "none")
            => frame[index[p]] = Result(RTrue)
         /\ (Receive(p) /\ cur[p].m = "batch_enter" /\ ~wbs[p].in)
            => frame[index[p]] = Result(RTrue)]_vars

\* C25. Abrupt disconnect is reclaimed: a slot whose peer set it CLEAN with
\* an iterator or a batch open becomes FREE while the maintainer runs, the
\* iterator is closed and the batch rolled back by then, and a peer that
\* takes the slot afterwards opens its own iterator and batch on it.
C25_AbruptDisconnectReclaimed ==
    /\ CleanLeadsToFree
    /\ FreedWithoutSessions
    /\ OwnSessionOpens

MaintainersAlive ==
    exiting + (IF bpc \in {"check", "serve", "reply", "clean", "teardown"} THEN 1 ELSE 0)

\* C27. Exactly one broker: at most one maintainer process is alive at any
\* moment, also while one that has unlinked its region has not exited and
\* a new first peer starts; and while a peer holds a slot of the current
\* region a maintainer is serving that region.
C27_OneBroker ==
    /\ MaintainersAlive <= 1
    /\ (region.st = "live" /\ \E p \in Procs : cpc[p] = "ready")
       => bpc \in {"check", "serve", "reply", "clean"}

\* Two maintainer processes are alive.
TwoMaintainers == MaintainersAlive > 1

\* C28. LexoKey order equals numeric order: for numbers a < b that are not
\* negative and have at most W digits, the texts of the keys of width W
\* both have W characters and that of a is below that of b, byte by byte.
C28_LexoOrder ==
    (lex.op = "str" /\ lex.a < lex.k /\ lex.k < 10 ^ lex.w)
    => /\ Len(lex.sa) = lex.w
       /\ Len(lex.sb) = lex.w
       /\ LexLess(lex.sa, lex.sb)

\* The texts of two keys of the largest width have been made, the first of
\* a number with fewer digits than the second, zero-filled.
C28_Witness ==
    /\ lex.op = "str"
    /\ lex.w = MaxWidth
    /\ Len(Repr(lex.a)) < Len(Repr(lex.k))
    /\ lex.sa[1] = 0

\* C29. LexoKey arithmetic is closed and width-preserving: a key of width W
\* plus or minus an integer is a key of width W whose value is the integer
\* result, and the operation raises when the result is negative or has
\* more than W digits.
C29_LexoArithmetic ==
    lex.op \in {"add", "sub"}
    => LET r == IF lex.op = "add" THEN lex.a + lex.k ELSE lex.a - lex.k
       IN IF r < 0 \/ r >= 10 ^ lex.w
          THEN lex.out.err = "ValueError"
          ELSE /\ lex.out = [err |-> "", val |-> r, size |-> lex.w]
               /\ Len(LexoIntStr(lex.out)) = lex.w

\* A sum that has one digit more than its first operand and still fits.
C29_Witness ==
    /\ lex.op = "add"
    /\ lex.out.err = ""
    /\ lex.out.val = lex.a + lex.k
    /\ Len(Repr(lex.a)) < Len(Repr(lex.out.val))

\* An overflowing sum and a negative difference raise.
LexoOverflowRaises ==
    (lex.op \in {"add", "sub"} /\ lex.out.err = "ValueError")
    => (lex.out.val < 0 \/ lex.out.val >= 10 ^ lex.w)

\* C30. SysLock mutual exclusion: at most one process is between a returned
\* acquire() and the end of its release(); acquire() returns only by
\* creating the sentinel region that did not exist; release() by the
\* holder destroys it; release() without a prior acquire raises and leaves
\* the sentinel of the holder in place.
C30_SysLockExclusion ==
    [][/\ Cardinality({p \in Procs : sys'.pc[p] \in {"held", "release"}}) <= 1
       /\ \A p \in Procs :
            /\ (sys.pc[p] = "acquire" /\ sys'.pc[p] = "held")
               => (~sys.sentinel /\ sys'.sentinel /\ sys'.ret[p] = "True")
            /\ (sys.pc[p] = "release" /\ sys'.pc[p] = "idle")
               => (~sys'.sentinel /\ ~sys'.shm[p])
            /\ (SysRelease(p) /\ ~sys.shm[p])
               => (sys'.ret[p] = "RuntimeError" /\ sys'.sentinel = sys.sentinel
                   /\ sys'.pc = sys.pc /\ sys'.shm = sys.shm)]_vars

\* One process holds the lock, another is waiting in acquire() and has had
\* its release() refused before.
C30_Witness ==
    \E p \in Procs : \E q \in Procs :
        /\ sys.pc[p] = "held" /\ sys.sentinel
        /\ sys.pc[q] = "acquire" /\ sys.ret[q] = "RuntimeError"

\* The content of table T: everything but the keys of table U.
TableContent(d) ==
    [k \in {x \in DOMAIN d : x \notin {OtherInsert[j][2] : j \in DOMAIN OtherInsert}} |-> d[k]]

\* C31. Cache hits are stable: a select on T whose arguments were used by
\* an earlier select, with no write to T in between, returns the value kept
\* for them and reads nothing from the store; a step that leaves the
\* content of T as it is, a write to table U included, keeps every cached
\* result of T.
C31_CacheHitsStable ==
    [][\A p \in Procs :
         /\ \A a \in CacheSelects :
              (ocalls' = ocalls - 1 /\ ret'[p].op = "select" /\ ret'[p].args = a
               /\ a \in DOMAIN cache[p] /\ Select(p, a))
              => (ret'[p].rows = cache[p][a] /\ cache'[p] = cache[p])
         /\ TableContent(db') = TableContent(db)
            => \A a \in DOMAIN cache[p] :
                 a \in DOMAIN cache'[p] /\ cache'[p][a] = cache[p][a]]_vars

\* The peer has inserted a row into T and one into U and has selected the
\* rows of T twice with the same arguments: one result is cached, and it is
\* what the last select returned.
C31_Witness ==
    /\ ocalls = 0
    /\ done.ins = 1
    /\ OtherRowKey \in DOMAIN db
    /\ Cardinality(DOMAIN cache[Creator]) = 1
    /\ ret[Creator].op = "select"
    /\ ret[Creator].args \in DOMAIN cache[Creator]
    /\ ret[Creator].rows = cache[Creator][ret[Creator].args]
    /\ ret[Creator].rows # <<>>

\* C32. Slot teardown invariant: in every state a slot whose lock byte is
\* FREE has no open iterator and no open batch in the maintainer
\* (iterators[i] and batches[i] are None).
C32_FreeSlotNoSession ==
    \A i \in Slots :
        lock[i] = LOCK_FREE => (iterators[i] = NoIter /\ batches[i] = NoBatch)

\* The maintainer leaves its loop only when it has read every lock byte as
\* FREE.
LoopsWhileHeld ==
    [][(bpc # "teardown" /\ bpc' = "teardown") => \A i \in Slots : lock[i] = LOCK_FREE]_vars

\* Once out of the loop the maintainer ends.
TeardownEnds == (bpc = "teardown") ~> (bpc = "stopped")

\* The maintainer ends with every iterator closed, every batch rolled back,
\* every lock byte zero and the region unlinked.
TeardownCleans ==
    [][(bpc # "stopped" /\ bpc' = "stopped")
       => /\ \A i \in Slots : iterators'[i] = NoIter /\ batches'[i] = NoBatch /\ lock'[i] = LOCK_FREE
          /\ region'.st = "unlinked"]_vars

\* C33. Broker lifetime: the maintainer keeps looping as long as some lock
\* byte is not FREE; once it has found every lock byte FREE it ends, after
\* closing every iterator, rolling back every batch, zeroing the lock bytes
\* and unlinking the region.
C33_BrokerLifetime ==
    /\ LoopsWhileHeld
    /\ TeardownEnds
    /\ TeardownCleans

\* The calls after whose answer the slot is released, and the session steps
\* after whose answer it is kept.
TerminalOps == {"put", "get", "delete", "close", "batch_exit", "batch_error"}
SessionSteps == {"iterator", "next", "batch_enter", "batch_put", "batch_delete"}

\* C34. State byte after a call: when a peer has read the answer (a result
\* or an error) of a single-shot call or of a session's terminal operation,
\* the state byte of its slot is IDLE; when it has read the answer of a
\* non-terminal session step the byte is RESPONSE; and while the peer is
\* between two calls the byte stays as the last answer left it, so it is
\* RESPONSE between the steps of a session.
C34_StateAfterCall ==
    [][\A p \in Procs :
         /\ (Receive(p) /\ cur[p].m \in TerminalOps) => state'[index[p]] = STATE_IDLE
         /\ (Receive(p) /\ cur[p].m \in SessionSteps) => state'[index[p]] = STATE_RESPONCE
         /\ (/\ cpc[p] = "ready" /\ cpc'[p] = "ready"
             /\ ppc[p] \in {"user", "gnext", "gclose"} /\ ppc'[p] \in {"user", "gnext", "gclose"})
            => state'[index[p]] = state[index[p]]]_vars

\* A peer is between two steps of a batch scope, one operation
\* acknowledged and its state byte RESPONSE, while the other peer is about
\* to read the error reply to its get.
C34_Witness ==
    \E p, q \in Procs :
        /\ p # q
        /\ cpc[p] = "ready" /\ ppc[p] = "user" /\ wbs[p].in /\ Len(wbs[p].ops) = 1
        /\ state[index[p]] = STATE_RESPONCE
        /\ cpc[q] = "ready" /\ ppc[q] = "wait" /\ cur[q].m = "get"
        /\ state[index[q]] = STATE_RESPONCE /\ frame[index[q]].kind = "error"

\* The maintainer stores a state byte only to turn REQUEST into RESPONSE
\* and writes a block only while its state byte is REQUEST.
BrokerWritesUnderRequest ==
    [][\A i \in Slots :
         (BrokerStep /\ (state'[i] # state[i] \/ frame'[i] # frame[i]))
         => (state[i] = STATE_REQUEST /\ state'[i] = STATE_RESPONCE)]_vars

\* A peer writes the block and the state byte of its slot only while the
\* state byte is not REQUEST.
PeerWritesOutsideRequest ==
    [][\A p \in Procs :
         (/\ cpc[p] = "ready" /\ cpc'[p] = "ready" /\ ppc'[p] # ppc[p]
          /\ (state'[index[p]] # state[index[p]] \/ frame'[index[p]] # frame[index[p]]))
         => state[index[p]] # STATE_REQUEST]_vars

\* The block and the state byte of a slot are written by the peer that
\* holds the slot or by the maintainer answering it, by no other process.
OnlyOwnerOrBroker ==
    [][\A i \in Slots :
         (state'[i] # state[i] \/ frame'[i] # frame[i])
         => \/ BrokerStep /\ bi = i
            \/ \E p \in Procs : cpc[p] = "ready" /\ index[p] = i /\ ppc'[p] # ppc[p]
            \/ \E p \in Procs : Create(p)]_vars

\* C35. Write discipline on a slot: the maintainer writes state[i] only to
\* change it from REQUEST to RESPONSE and writes the block only while
\* state[i] is REQUEST; the owning peer never writes the block or the state
\* byte while state[i] is REQUEST; no process writes the state byte or the
\* block of a slot it neither owns nor is servicing.
C35_WriteDiscipline ==
    /\ BrokerWritesUnderRequest
    /\ PeerWritesOutsideRequest
    /\ OnlyOwnerOrBroker

\* The index keys of the row with the id lexo.
IndexKeysOf(d, lexo) == {k \in DOMAIN d : k[2] = lexo /\ k[1] # RowPrefix}

\* C36. Predicate sources survive updates: between two ORM calls, after any
\* sequence of inserts and updates, the index entries of every stored row
\* are exactly one entry Ts.<p(row)>.<id> for every predicate source p of
\* the model ('items' included), each holding p as its value, also when two
\* predicates evaluate to the same ckey.
C36_SourcesSurvive ==
    OrmQuiet
    => \A k \in RowKeys(db) :
         /\ \A src \in ModelIkeys :
              /\ IndexKey(EvalIkey(src, db[k]), k[2]) \in DOMAIN db
              /\ db[IndexKey(EvalIkey(src, db[k]), k[2])] = src
         /\ IndexKeysOf(db, k[2]) = {IndexKey(EvalIkey(src, db[k]), k[2]) : src \in ModelIkeys}

\* The maintainer executes the request of slot i.
Executes(i) == bpc = "serve" /\ bi = i /\ tasks[i] = STATE_REQUEST /\ bpc' = "reply"

\* The maintainer executes a block only of a slot whose state byte is
\* REQUEST, and the execution is followed by the answer (RESPONSE stored
\* with the reply), after which the block is not a request any more.
ExecutesOnlyRequests ==
    [][\A i \in Slots :
         /\ Executes(i) => state[i] = STATE_REQUEST
         /\ (bpc = "reply" /\ bi = i /\ bpc' = "clean")
            => (state'[i] = STATE_RESPONCE /\ frame'[i] = reply)]_vars

\* A request is written only into a slot that holds no request waiting to be
\* executed or answered, so no request is lost before it is executed.
NoRequestOverwritten ==
    [][\A p \in Procs :
         (cpc[p] = "ready" /\ ppc[p] # "wait" /\ ppc'[p] = "wait")
         => state[index[p]] # STATE_REQUEST]_vars

\* Between the execution of a request and its answer the block still holds
\* the request executed: the answer a peer reads is the answer to the
\* request it wrote.
AnswerIsOfRequest ==
    [][\A i \in Slots :
         (bpc = "reply" /\ bi = i /\ frame'[i] # frame[i]) => bpc' # "reply"]_vars

\* C37. Exactly-once servicing: every request a peer submits is executed by
\* the maintainer exactly once and answered exactly once; the maintainer
\* never executes the same request twice and never executes a block of a
\* slot whose state byte is not REQUEST.
C37_ExactlyOnce ==
    /\ ExecutesOnlyRequests
    /\ NoRequestOverwritten
    /\ AnswerIsOfRequest

\* C38. No orphaned peer: every call of a peer that has captured a slot
\* returns (with a result, a Remote error or ConnectionError), however the
\* peer's startup interleaves with the maintainer's teardown: no peer waits
\* for ever for an answer.
C38_NoOrphanedPeer ==
    \A p \in Procs : (cpc[p] = "ready" /\ ppc[p] = "wait") ~> (ppc[p] # "wait")

\* The ckeys the predicates of the model give on the data of the runs.
DataCkeys ==
    {EvalIkey(src, MergeData(old, new)) :
        src \in ModelIkeys, old \in OrmData \cup OrmUpdates, new \in OrmData \cup OrmUpdates}

\* C39. Index/row consistency: between two ORM calls, after any sequence of
\* insert, update and remove on table T by peers whose requests interleave
\* at the maintainer, an index key Ts.<c>.<id> exists if and only if the row
\* T.<id> exists and its stored ckeys contain c.
C39_IndexRowConsistent ==
    OrmQuiet
    => \A c \in DataCkeys : \A n \in 0..MaxOrmCalls :
         IndexKey(c, LexoStr(n)) \in DOMAIN db
         <=> /\ RowKey(LexoStr(n)) \in DOMAIN db
             /\ c \in Range(db[RowKey(LexoStr(n))].ckeys)

\* C40. Select results belong to the queried store: when one process has
\* two ORM objects on different paths that both hold the table T, a select
\* through either returns the rows of that object's store, and an insert
\* through the first object leaves what a select through the second one
\* returns as it was.
C40_SelectOfOwnStore ==
    [][\A p \in Procs : \A a \in StoreSelects :
         /\ (ocalls' = ocalls - 1 /\ ret'[p].op = "select" /\ ret'[p].args = a /\ odb' = odb
             /\ db' = db /\ OtherPathSelect(p, a))
            => ret'[p].rows = SelectCompute(odb, a).result
         /\ (ocalls' = ocalls - 1 /\ ret'[p].op = "select" /\ ret'[p].args = a /\ odb' = odb
             /\ db' = db /\ Select(p, a))
            => ret'[p].rows = SelectCompute(db, a).result]_vars

====
